---- MODULE Spec2Model ----
(***************************************************************************)
(* Conversation store and chat orchestration of the gym chatbot backend    *)
(* (backend/main.py).  Every request runs as its own asyncio task and      *)
(* opens its own SQLite connection; each awaited statement is one step,    *)
(* and the statements between the implicit BEGIN (issued before the first  *)
(* INSERT/UPDATE/DELETE) and commit() become visible together.             *)
(***************************************************************************)
EXTENDS Integers, Sequences, FiniteSets, TLC

\* ------------------------------------------------------------- bounds
\* conversations created, save_chat_async invocations, clock readings and
\* LIMIT arguments explored by each specification below
MaxConv == 1
MaxMsg == 1
MaxClock == 2
RaceMsg == 3
RaceClock == 3
HistConv == 2
HistMsg == 3
MaxLimit == 2
LatestConv == 2
LatestMsg == 2
LatestClock == 2
MaxUris == 4
MaxDocs == 3
MaxHistory == 1
ChatConv == 1
ChatMsg == 2

\* chat_endpoint reads the last 10 turns, the history routes the last 50
ChatHistoryLimit == 10
HistoryLimit == 50

Users == {"A", "B"}
Texts == {"hello"}
Titles == {"", "Legs"}
NewTitles == {"Arms"}
\* two requests in flight at a time
Tasks == {1, 2}
Limits == 1..MaxLimit
\* a conversation_id argument: 0 stands for every falsy value (None, 0)
NoConv == 0

VARIABLES
    conversations,  \* table conversations: id -> row
    conv_seq,       \* AUTOINCREMENT counter of conversations
    chat_history,   \* table chat_history: id -> row
    msg_seq,        \* AUTOINCREMENT counter of chat_history
    clock,          \* datetime.datetime.now()
    task,           \* the requests in flight: position and locals
    calls,          \* save_chat_async invocations past the ownership check so far
    last,           \* the response of the request that just ended, until delivered
    guest_sessions,     \* auth.py: the in-process dict guest_sessions: session_id -> session
    guest_sessions_db,  \* auth.py: table guest_sessions: session code -> row
    users,              \* auth.py: table users: id -> row
    tokens              \* auth.py: the access tokens create_access_token has signed

vars == <<conversations, conv_seq, chat_history, msg_seq, clock, task, calls, last,
          guest_sessions, guest_sessions_db, users, tokens>>
auth == <<guest_sessions, guest_sessions_db, users, tokens>>
tables == <<conversations, chat_history>>

\* ------------------------------------------------------------- helpers
Min(a, b) == IF a < b THEN a ELSE b

Idle == [op |-> "none", pc |-> "idle", chat |-> FALSE, user |-> "A", conv |-> 0,
         limit |-> 0, title |-> "", text |-> "", ts |-> 0, call |-> 0,
         rows |-> <<>>, created |-> FALSE, retrieved |-> <<>>, docs |-> <<>>,
         uris |-> <<>>, response |-> <<>>, citations |-> <<>>, prompt |-> <<>>,
         lang |-> "none"]

\* the arguments of a direct call of generate_response_with_context_async
NoArgs == [message |-> "", docs |-> <<>>, uris |-> <<>>, history |-> <<>>, outcome |-> ""]

\* a JWT payload, and a bearer token as a client sends it: a payload under a
\* good signature, under a bad one, or no JWT at all
NoPayload == [sub |-> "", username |-> "", is_guest |-> FALSE, exp |-> 0]
Bearer(form, payload) == [form |-> form, payload |-> payload]
NoBearer == Bearer("none", NoPayload)

Quiet == [op |-> "none", step |-> "none", user |-> "A", conv |-> 0,
          status |-> "pending", limit |-> 0, rows |-> <<>>, convs |-> <<>>,
          args |-> NoArgs, response |-> <<>>, citations |-> <<>>, prompt |-> <<>>,
          lang |-> "none", code |-> "", session |-> <<>>,
          detail |-> "", bearer |-> NoBearer, username |-> "", password |-> ""]

Done(op, step, u, c, st) ==
    [Quiet EXCEPT !.op = op, !.step = step, !.user = u, !.conv = c, !.status = st]

\* title as stored: a given title, or the default "Conversation <now>"
GivenTitle(s) == [text |-> s, stamp |-> 0]
DefaultTitle(t) == [text |-> "Conversation", stamp |-> t]

\* the SELECT without its `AND user_id = ?`
OwnedByAnyone(u, c) == c \in DOMAIN conversations

\* SELECT id FROM conversations WHERE id = ? AND user_id = ?
Owned(u, c) == c \in DOMAIN conversations /\ conversations[c].user_id = u

\* COUNT(ch.id) over the join without its ON clause
MsgIdsOfAll(c) == DOMAIN chat_history

MsgIds(c) == {i \in DOMAIN chat_history : chat_history[i].conversation_id = c}

\* json.dumps(citations) and json.loads(row[2])
Dumps(citations) == [json |-> citations]
Loads(column) == column.json

Row(i) == [id |-> i,
           conversation_id |-> chat_history[i].conversation_id,
           user_message |-> chat_history[i].user_message,
           bot_response |-> chat_history[i].bot_response,
           citations |-> Loads(chat_history[i].citations),
           timestamp |-> chat_history[i].timestamp,
           call |-> chat_history[i].call]

\* LIMIT ? + 1
LimitPlusOne(s, n) == SubSeq(s, 1, Min(n + 1, Len(s)))

\* LIMIT ?
Limit(s, n) == SubSeq(s, 1, Min(n, Len(s)))

Max(S) == CHOOSE x \in S : \A y \in S : y <= x

\* ORDER BY id DESC
RECURSIVE OrderByIdDesc(_)
OrderByIdDesc(S) ==
    IF S = {} THEN <<>>
    ELSE <<Row(Max(S))>> \o OrderByIdDesc(S \ {Max(S)})

\* ... WHERE conversation_id = ? ORDER BY id DESC LIMIT ?
SelectHistory(c, n) == Limit(OrderByIdDesc(MsgIds(c)), n)

\* ------------------------------------------------------------- statements
\* INSERT INTO conversations (user_id, title, created_at, updated_at)
InsertConversation(u, title, ts) ==
    conversations @@ ((conv_seq + 1) :>
        [user_id |-> u, title |-> title, created_at |-> ts, updated_at |-> ts])

\* the INSERT with an empty citations column
InsertMessageWithoutCitations(c, text, bot_response, citations, ts, k) ==
    chat_history @@ ((msg_seq + 1) :>
        [conversation_id |-> c, user_message |-> text, bot_response |-> bot_response,
         citations |-> Dumps(<<>>), timestamp |-> ts, call |-> k])

\* INSERT INTO chat_history (conversation_id, user_message, ..., timestamp)
InsertMessage(c, text, bot_response, citations, ts, k) ==
    chat_history @@ ((msg_seq + 1) :>
        [conversation_id |-> c, user_message |-> text, bot_response |-> bot_response,
         citations |-> Dumps(citations), timestamp |-> ts, call |-> k])

\* save_chat_async without its UPDATE
TouchConversationSkipped(u, c, ts) == conversations

\* UPDATE conversations SET updated_at = ? WHERE id = ? AND user_id = ?
TouchConversation(u, c, ts) ==
    IF Owned(u, c) THEN [conversations EXCEPT ![c].updated_at = ts]
    ELSE conversations

\* UPDATE conversations SET title = ?, updated_at = ? WHERE id = ? AND user_id = ?
SetTitle(u, c, title, ts) ==
    IF Owned(u, c)
    THEN [conversations EXCEPT ![c].title = GivenTitle(title), ![c].updated_at = ts]
    ELSE conversations

\* delete_conversation_async without its first DELETE
DeleteMessagesOfNone(c) == chat_history

\* DELETE FROM chat_history WHERE conversation_id = ?
DeleteMessagesOf(c) ==
    [i \in DOMAIN chat_history \ MsgIds(c) |-> chat_history[i]]

\* DELETE FROM conversations WHERE id = ? AND user_id = ?
DeleteConversationRow(u, c) ==
    IF Owned(u, c)
    THEN [i \in DOMAIN conversations \ {c} |-> conversations[i]]
    ELSE conversations

\* ------------------------------------------------------------- requests
IsIdle(p) == task[p].pc = "idle"
At(p, pc) == task[p].pc = pc
Finish(p) == task' = [task EXCEPT ![p] = Idle]
Goto(p, pc) == task' = [task EXCEPT ![p].pc = pc]

\* a request as it starts: the arguments it was called with
Request(op, u, c) == [Idle EXCEPT !.op = op, !.chat = (op = "chat"), !.user = u, !.conv = c]

\* requests in flight that will still insert a conversation
PendingCreates == Cardinality({p \in Tasks : task[p].pc = "create_commit"})
RoomForConversation(k) == conv_seq + PendingCreates < k
\* chat requests in flight that have not called save_chat_async yet
PendingChats == Cardinality({p \in Tasks : task[p].chat /\ task[p].call = 0})
RoomForMessage(m) == calls + PendingChats < m

\* the request going on without the ownership check
CheckOwnershipSkipped(p, t, op, next) ==
    /\ task' = [task EXCEPT ![p] = [t EXCEPT !.pc = next]]
    /\ last' = Quiet

\* cursor = SELECT id FROM conversations WHERE id = ? AND user_id = ?
\* if not await cursor.fetchone(): raise HTTPException(404)
CheckOwnership(p, t, op, next) ==
    IF Owned(t.user, t.conv)
    THEN /\ task' = [task EXCEPT ![p] = [t EXCEPT !.pc = next]]
         /\ last' = Quiet
    ELSE /\ Finish(p)
         /\ last' = Done(op, "check", t.user, t.conv, "NotFound")

\* ------------------------------------------------------------- get_chat_history_async
\* `if conversation_id:` branch, first statement
GetHistory(p, u, c, n) ==
    /\ IsIdle(p)
    /\ c # NoConv
    /\ CheckOwnership(p, [Request("get_history", u, c) EXCEPT !.limit = n],
                      "get_history", "gh_rows")
    /\ UNCHANGED <<conversations, conv_seq, chat_history, msg_seq, clock, calls, auth>>

\* the SELECT ... ORDER BY id DESC LIMIT ? and the loop over rows
GetHistoryRows(p) ==
    /\ At(p, "gh_rows")
    /\ LET rows == SelectHistory(task[p].conv, task[p].limit) IN
       IF task[p].chat
       THEN /\ task' = [task EXCEPT ![p].rows = rows, ![p].pc = "retrieve"]
            /\ last' = Quiet
       ELSE /\ Finish(p)
            /\ last' = [Done("get_history", "rows", task[p].user, task[p].conv, "ok")
                          EXCEPT !.rows = rows, !.limit = task[p].limit]
    /\ UNCHANGED <<conversations, conv_seq, chat_history, msg_seq, clock, calls, auth>>

\* the JOIN without its `WHERE c.user_id = ?`
JoinedIdsOfAll(u) ==
    {i \in DOMAIN chat_history : chat_history[i].conversation_id \in DOMAIN conversations}

\* else branch: ch JOIN c WHERE c.user_id = ? ORDER BY c.updated_at DESC, ch.id DESC
JoinedIds(u) ==
    {i \in DOMAIN chat_history : Owned(u, chat_history[i].conversation_id)}

Precedes(i, j) ==
    LET a == conversations[chat_history[i].conversation_id].updated_at
        b == conversations[chat_history[j].conversation_id].updated_at
    IN  a > b \/ (a = b /\ i > j)

First(S) == CHOOSE i \in S : \A j \in S \ {i} : Precedes(i, j)

RECURSIVE OrderByUpdatedDesc(_)
OrderByUpdatedDesc(S) ==
    IF S = {} THEN <<>>
    ELSE <<Row(First(S))>> \o OrderByUpdatedDesc(S \ {First(S)})

SelectLatest(u, n) == Limit(OrderByUpdatedDesc(JoinedIds(u)), n)

GetHistoryLatest(p, u, n) ==
    /\ IsIdle(p)
    /\ last' = [Done("get_history", "latest", u, NoConv, "ok")
                  EXCEPT !.rows = SelectLatest(u, n), !.limit = n]
    /\ UNCHANGED <<conversations, conv_seq, chat_history, msg_seq, clock, task, calls, auth>>

\* GET /conversations/{conversation_id}/history: get_chat_history_async(user_id,
\* conversation_id, 50), where `if conversation_id:` sends id 0 down the
\* branch of the call without an id
get_conversation_history(p, u, c) ==
    IF c # NoConv
    THEN GetHistory(p, u, c, HistoryLimit)
    ELSE /\ IsIdle(p)
         /\ last' = [Done("get_conversation_history", "latest", u, c, "ok")
                       EXCEPT !.rows = SelectLatest(u, HistoryLimit),
                              !.limit = HistoryLimit]
         /\ UNCHANGED <<conversations, conv_seq, chat_history, msg_seq, clock, task,
                        calls, auth>>

\* ------------------------------------------------------------- save_chat_async
\* the ownership SELECT; the invocations that get past it are numbered in the
\* order they are made
SaveCheck(p, t) ==
    /\ calls' = IF Owned(t.user, t.conv) THEN calls + 1 ELSE calls
    /\ CheckOwnership(p, [t EXCEPT !.call = calls + 1], "save", "save_stamp")
    /\ UNCHANGED <<conversations, conv_seq, chat_history, msg_seq, clock, auth>>

SaveMessage(p, u, c, text) ==
    /\ IsIdle(p)
    /\ SaveCheck(p, [Request("save", u, c) EXCEPT !.text = text, !.response = <<"reply">>])

\* timestamp = datetime.datetime.now().isoformat()
SaveStamp(p) ==
    /\ At(p, "save_stamp")
    /\ task' = [task EXCEPT ![p].ts = clock, ![p].pc = "save_commit"]
    /\ last' = Quiet
    /\ UNCHANGED <<conversations, conv_seq, chat_history, msg_seq, clock, calls, auth>>

\* INSERT, UPDATE and commit(): one transaction
SaveCommit(p) ==
    /\ At(p, "save_commit")
    /\ chat_history' = InsertMessage(task[p].conv, task[p].text, task[p].response,
                                     task[p].citations, task[p].ts, task[p].call)
    /\ msg_seq' = msg_seq + 1
    /\ conversations' = TouchConversation(task[p].user, task[p].conv, task[p].ts)
    /\ Finish(p)
    /\ last' = IF task[p].chat
               THEN [Done("chat", "return", task[p].user, task[p].conv, "ok")
                       EXCEPT !.response = task[p].response,
                              !.citations = task[p].citations]
               ELSE Done("save", "commit", task[p].user, task[p].conv, "ok")
    /\ UNCHANGED <<conv_seq, clock, calls, auth>>

\* a statement of the transaction raises: nothing is committed, and the
\* exception leaves the request as a 500
SaveFault(p) ==
    /\ At(p, "save_commit")
    /\ Finish(p)
    /\ last' = Done(IF task[p].chat THEN "chat" ELSE "save", "commit",
                    task[p].user, task[p].conv, "InternalFault")
    /\ UNCHANGED <<conversations, conv_seq, chat_history, msg_seq, clock, calls, auth>>

\* ------------------------------------------------------------- update_conversation_title_async
UpdateTitle(p, u, c, title) ==
    /\ IsIdle(p)
    /\ CheckOwnership(p, [Request("update_title", u, c) EXCEPT !.title = title],
                      "update_title", "title_stamp")
    /\ UNCHANGED <<conversations, conv_seq, chat_history, msg_seq, clock, calls, auth>>

\* timestamp = datetime.datetime.now().isoformat()
TitleStamp(p) ==
    /\ At(p, "title_stamp")
    /\ task' = [task EXCEPT ![p].ts = clock, ![p].pc = "title_commit"]
    /\ last' = Quiet
    /\ UNCHANGED <<conversations, conv_seq, chat_history, msg_seq, clock, calls, auth>>

\* UPDATE and commit()
TitleCommit(p) ==
    /\ At(p, "title_commit")
    /\ conversations' = SetTitle(task[p].user, task[p].conv, task[p].title, task[p].ts)
    /\ Finish(p)
    /\ last' = Done("update_title", "commit", task[p].user, task[p].conv, "ok")
    /\ UNCHANGED <<conv_seq, chat_history, msg_seq, clock, calls, auth>>

\* ------------------------------------------------------------- delete_conversation_async
DeleteConversation(p, u, c) ==
    /\ IsIdle(p)
    /\ CheckOwnership(p, Request("delete", u, c), "delete", "delete_commit")
    /\ UNCHANGED <<conversations, conv_seq, chat_history, msg_seq, clock, calls, auth>>

\* the two DELETEs and commit(): one transaction
DeleteCommit(p) ==
    /\ At(p, "delete_commit")
    /\ chat_history' = DeleteMessagesOf(task[p].conv)
    /\ conversations' = DeleteConversationRow(task[p].user, task[p].conv)
    /\ Finish(p)
    /\ last' = Done("delete", "commit", task[p].user, task[p].conv, "ok")
    /\ UNCHANGED <<conv_seq, msg_seq, clock, calls, auth>>

\* ------------------------------------------------------------- create_conversation_async
\* `if not title:` and the now() calls, which run before the first await
CreateStamp(p, t) ==
    /\ task' = [task EXCEPT ![p] = [t EXCEPT !.ts = clock, !.pc = "create_commit"]]
    /\ last' = Quiet
    /\ UNCHANGED <<conversations, conv_seq, chat_history, msg_seq, clock, calls, auth>>

CreateConversation(p, u, title) ==
    /\ IsIdle(p)
    /\ CreateStamp(p, [Request("create", u, NoConv) EXCEPT !.title = title])

StoredTitle(title, ts) == IF title = "" THEN DefaultTitle(ts) ELSE GivenTitle(title)

\* INSERT, commit(), SELECT last_insert_rowid()
CreateCommit(p) ==
    /\ At(p, "create_commit")
    /\ conversations' = InsertConversation(task[p].user,
                            StoredTitle(task[p].title, task[p].ts), task[p].ts)
    /\ conv_seq' = conv_seq + 1
    /\ IF task[p].chat
       THEN /\ task' = [task EXCEPT ![p].conv = conv_seq + 1, ![p].created = TRUE,
                                     ![p].pc = "gh_check"]
            /\ last' = Quiet
       ELSE /\ Finish(p)
            /\ last' = Done("create", "commit", task[p].user, conv_seq + 1, "ok")
    /\ UNCHANGED <<chat_history, msg_seq, clock, calls, auth>>

\* ------------------------------------------------------------- get_conversations_async
ConvRow(c) == [id |-> c,
               title |-> conversations[c].title,
               created_at |-> conversations[c].created_at,
               updated_at |-> conversations[c].updated_at,
               message_count |-> Cardinality(MsgIds(c)),
               user_id |-> conversations[c].user_id]

ConvsOf(u) == {c \in DOMAIN conversations : conversations[c].user_id = u}

\* ORDER BY c.updated_at DESC: rows with equal updated_at come in any order
SelectConversations(u) ==
    {s \in [1..Cardinality(ConvsOf(u)) -> {ConvRow(c) : c \in ConvsOf(u)}] :
        /\ \A i, j \in DOMAIN s : i # j => s[i].id # s[j].id
        /\ \A i, j \in DOMAIN s : i < j => s[i].updated_at >= s[j].updated_at}

GetConversations(p, u) ==
    /\ IsIdle(p)
    /\ \E s \in SelectConversations(u) :
          last' = [Done("get_conversations", "select", u, NoConv, "ok") EXCEPT !.convs = s]
    /\ UNCHANGED <<conversations, conv_seq, chat_history, msg_seq, clock, task, calls, auth>>

\* ------------------------------------------------------------- clear_history
\* DELETE FROM chat_history; the route takes no current_user: u is whoever calls
ClearHistory(p, u) ==
    /\ IsIdle(p)
    /\ chat_history' = <<>>
    /\ last' = Done("clear_history", "commit", u, NoConv, "ok")
    /\ UNCHANGED <<conversations, conv_seq, msg_seq, clock, task, calls, auth>>

\* ------------------------------------------------------------- format_source_uri
\* A text is kept as the sequence of its tokens; a URI as uri.split('/') sees
\* it, the sequence of its parts.  The tokens "/", "\\", ".", "_" and "-" stand
\* for those characters, every other token for a run of other characters.
ProgramMd == << <<"s3:">>, <<>>, <<"bucket">>, <<"docs">>, <<"Program", "_", "3", ".", "md">> >>
ProgramPdf == << <<"s3:">>, <<>>, <<"bucket">>, <<"v2">>, <<"Program", "-", "3", ".", "pdf">> >>
GuideMd == << <<"s3:">>, <<>>, <<"bucket">>, <<"docs">>, <<"Guide", ".", "md">> >>
Locators == {ProgramMd, ProgramPdf, GuideMd}
\* the empty string: ''.split('/') is ['']
NoUri == << <<>> >>

Range(f) == {f[i] : i \in DOMAIN f}
Last(f) == f[Len(f)]
LastIndexOf(f, tok) == Max({i \in DOMAIN f : f[i] = tok})

\* '/'.join(parts)
RECURSIVE Join(_)
Join(parts) ==
    IF Len(parts) = 1 THEN parts[1]
    ELSE Join(SubSeq(parts, 1, Len(parts) - 1)) \o <<"/">> \o Last(parts)

\* if '.' in filename: filename = filename.rsplit('.', 1)[0]
StripExtension(f) ==
    IF "." \in Range(f) THEN SubSeq(f, 1, LastIndexOf(f, ".") - 1) ELSE f

\* filename.replace('_', ' ').replace('-', ' ')
SpacesForSeparators(f) == [i \in DOMAIN f |-> IF f[i] \in {"_", "-"} THEN " " ELSE f[i]]

\* uri.split('\\')[-1]
AfterLastBackslash(f) ==
    IF "\\" \in Range(f) THEN SubSeq(f, LastIndexOf(f, "\\") + 1, Len(f)) ELSE f

StartsWithS3(uri) == Len(uri) >= 3 /\ uri[1] = <<"s3:">> /\ uri[2] = <<>>
StartsWithHttp(uri) == uri[1] # <<>> /\ uri[1][1] \in {"http:", "https:"}

format_source_uri(uri) ==
    IF uri = NoUri THEN <<"Unknown source">>
    ELSE IF StartsWithS3(uri)
    THEN IF Len(uri) > 3
         THEN SpacesForSeparators(StripExtension(Last(uri)))
         ELSE IF Last(uri) # <<>> THEN Last(uri) ELSE <<"S3 Document">>
    ELSE IF StartsWithHttp(uri)
    THEN IF Len(uri) > 2
         THEN IF Last(uri) # <<>> THEN Last(uri) ELSE uri[3]
         ELSE Join(uri)
    ELSE IF Len(uri) > 1 \/ "\\" \in Range(uri[1])
    THEN SpacesForSeparators(StripExtension(
             IF Len(uri) > 1 THEN Last(uri) ELSE AfterLastBackslash(uri[1])))
    ELSE Join(uri)

\* uri.split('/') of a text
RECURSIVE SplitLoop(_, _, _)
SplitLoop(text, i, parts) ==
    IF i > Len(text) THEN parts
    ELSE IF text[i] = "/" THEN SplitLoop(text, i + 1, Append(parts, <<>>))
    ELSE SplitLoop(text, i + 1, [parts EXCEPT ![Len(parts)] = Append(@, text[i])])

Split(text) == SplitLoop(text, 1, << <<>> >>)

\* ------------------------------------------------------------- retrieve_from_knowledge_base_async
\* retrieved_documents is None
None == <<"None">>

\* a retrievalResult: its content text ('' when absent) and its s3 uri
Result(text, uri) == [text |-> text, uri |-> uri]

\* one turn of `for i, result in enumerate(...)`
AddResult(acc, result) ==
    IF result.text = "" THEN acc
    ELSE [docs |-> Append(acc.docs, result.text),
          uris |-> IF result.uri # NoUri /\ result.uri \notin Range(acc.uris)
                   THEN Append(acc.uris, result.uri)
                   ELSE acc.uris]

RECURSIVE RetrieveLoop(_, _, _)
RetrieveLoop(results, i, acc) ==
    IF i > Len(results) THEN acc
    ELSE RetrieveLoop(results, i + 1, AddResult(acc, results[i]))

\* (retrieved_passages, source_uris), or (None, []) when the call raised
retrieve_from_knowledge_base(results, failed) ==
    IF failed THEN [docs |-> None, uris |-> <<>>]
    ELSE RetrieveLoop(results, 1, [docs |-> <<>>, uris |-> <<>>])

\* ------------------------------------------------------------- detect_language
spanish_words ==
    <<"qué", "cómo", "dónde", "cuándo", "por qué", "quién", "cuál", "cuáles", "este",
     "esta", "estos", "estas", "ese", "esa", "esos", "esas", "aquel", "aquella",
     "aquellos", "aquellas", "con", "para", "por", "sin", "sobre", "entre", "hacia",
     "desde", "hasta", "durante", "según", "mediante", "contra", "bajo", "tras",
     "ante", "bajo", "cabe", "so", "través", "versus", "vía", "ejercicio", "rutina",
     "series", "repeticiones", "peso", "fuerza", "musculo", "gimnasio", "necesito",
     "quiero", "debo", "puedo", "debería">>
spanish_chars == <<"ñ", "á", "é", "í", "ó", "ú", "ü", "¿", "¡">>
english_words ==
    <<"what", "how", "where", "when", "why", "who", "which", "this", "that", "these",
     "those", "with", "for", "by", "without", "over", "between", "toward", "from",
     "until", "during", "according", "through", "against", "under", "exercise",
     "training", "routine", "sets", "repetitions", "weight", "strength", "muscle",
     "gym", "need", "want", "should", "can", "could">>

\* str.lower() of one character
LowerChar(c) ==
    CASE c = "A" -> "a" [] c = "B" -> "b" [] c = "C" -> "c" [] c = "D" -> "d"
      [] c = "E" -> "e" [] c = "F" -> "f" [] c = "G" -> "g" [] c = "H" -> "h"
      [] c = "I" -> "i" [] c = "J" -> "j" [] c = "K" -> "k" [] c = "L" -> "l"
      [] c = "M" -> "m" [] c = "N" -> "n" [] c = "O" -> "o" [] c = "P" -> "p"
      [] c = "Q" -> "q" [] c = "R" -> "r" [] c = "S" -> "s" [] c = "T" -> "t"
      [] c = "U" -> "u" [] c = "V" -> "v" [] c = "W" -> "w" [] c = "X" -> "x"
      [] c = "Y" -> "y" [] c = "Z" -> "z" [] c = "Ñ" -> "ñ" [] c = "Á" -> "á"
      [] c = "É" -> "é" [] c = "Í" -> "í" [] c = "Ó" -> "ó" [] c = "Ú" -> "ú"
      [] c = "Ü" -> "ü"
      [] OTHER -> c

\* text.lower()
RECURSIVE Lower(_)
Lower(text) ==
    IF text = "" THEN ""
    ELSE LowerChar(SubSeq(text, 1, 1)) \o Lower(SubSeq(text, 2, Len(text)))

\* `word in text`: word occurs in text as a substring
Contains(word, text) ==
    \E i \in 1..(Len(text) - Len(word) + 1) : SubSeq(text, i, i + Len(word) - 1) = word

\* the positions in spanish_words, spanish_chars and english_words of the
\* entries that occur in the lower-cased text as substrings
ScanLower(text_lower) ==
    [es_words |-> {i \in DOMAIN spanish_words : Contains(spanish_words[i], text_lower)},
     es_chars |-> {i \in DOMAIN spanish_chars : Contains(spanish_chars[i], text_lower)},
     en_words |-> {i \in DOMAIN english_words : Contains(english_words[i], text_lower)}]

Scan(text) == ScanLower(Lower(text))

\* the messages of the requests: of a direct call, of the turns before it, of POST /chat
GenTexts == {"How many sets?", "¿Cuál es la mejor rutina?",
             "What is a concentric movement?", "Leg day"}
HistoryTexts == {"How many sets?", "Necesito una rutina"}
ChatTexts == {"How many sets?", "Necesito una rutina"}

\* the messages handed to detect_language alone: up to MaxWords of these words
MaxWords == 2
Vocabulary == {"What", "without", "CON", "gym", "Leg", "day", "also", "MAÑANA", "¿", "rutina"}
RECURSIVE Phrases(_)
Phrases(n) ==
    IF n = 0 THEN {""}
    ELSE Phrases(n - 1) \cup Vocabulary
         \cup {p \o " " \o w : p \in Phrases(n - 1) \ {""}, w \in Vocabulary}
DetectTexts == Phrases(MaxWords)

\* the scan of every message above, made once
Scanned ==
    [text \in Texts \cup GenTexts \cup HistoryTexts \cup ChatTexts \cup DetectTexts |-> Scan(text)]

Indicators(text) == IF text \in DOMAIN Scanned THEN Scanned[text] ELSE Scan(text)

\* a detection that votes: Spanish only with more Spanish than English indicators
DetectByMajority(text) ==
    LET spanish_score == Cardinality(Indicators(text).es_words)
                         + (Cardinality(Indicators(text).es_chars) * 2)
        english_score == Cardinality(Indicators(text).en_words)
    IN  IF spanish_score > english_score THEN "es" ELSE "en"

detect_language(text) ==
    LET spanish_word_count == Cardinality(Indicators(text).es_words)
        spanish_char_count == Cardinality(Indicators(text).es_chars)
        english_word_count == Cardinality(Indicators(text).en_words)
        spanish_score == spanish_word_count + (spanish_char_count * 2)
        english_score == english_word_count
    IN  IF spanish_score > 0 THEN "es"
        ELSE IF english_score > 0 THEN "en"
        ELSE "en"

\* chat_history[-3:]
LastThree(h) == IF Len(h) >= 3 THEN SubSeq(h, Len(h) - 2, Len(h)) ELSE h

\* the language of the latest turn first, of the message only without turns
LanguageOfLatestTurn(user_message, history) ==
    IF history = <<>> THEN detect_language(user_message)
    ELSE detect_language(history[Len(history)].user_message)

\* the history vote taken whenever the message holds no listed word at all
ResolveByVote(user_message, history) ==
    LET recent_messages == LastThree(history)
        spoken == {i \in DOMAIN recent_messages : recent_messages[i].user_message # ""}
        spanish_count ==
            Cardinality({i \in spoken : detect_language(recent_messages[i].user_message) = "es"})
        english_count == Cardinality(spoken) - spanish_count
    IN  IF Indicators(user_message).es_words \cup Indicators(user_message).es_chars
              \cup Indicators(user_message).en_words # {}
        THEN detect_language(user_message)
        ELSE IF spanish_count > english_count THEN "es"
        ELSE "en"

get_conversation_language(user_message, history) ==
    LET current_language == detect_language(user_message)
        recent_messages == LastThree(history)
        spoken == {i \in DOMAIN recent_messages : recent_messages[i].user_message # ""}
        spanish_count ==
            Cardinality({i \in spoken : detect_language(recent_messages[i].user_message) = "es"})
        english_count == Cardinality(spoken) - spanish_count
    IN  IF current_language = "es" THEN "es"
        ELSE IF current_language = "en" THEN "en"
        ELSE IF spanish_count > english_count THEN "es"
        ELSE "en"

\* ------------------------------------------------------------- generate_response_with_context_async
\* `if retrieved_documents:`
Truthy(docs) == docs # None /\ docs # <<>>

\* the same turn telling citations apart by uri
AddCitationByUri(seen, formatted_name, uri) ==
    IF \E k \in DOMAIN seen : seen[k].uri = uri
    THEN seen
    ELSE Append(seen, [name |-> formatted_name, uri |-> uri])

\* one turn of `for uri in source_uris`: add the name unless it is there
AddCitation(seen, formatted_name, uri) ==
    IF \E k \in DOMAIN seen : seen[k].name = formatted_name
    THEN seen
    ELSE Append(seen, [name |-> formatted_name, uri |-> uri])

RECURSIVE UniqueCitationsLoop(_, _, _)
UniqueCitationsLoop(source_uris, i, seen) ==
    IF i > Len(source_uris) THEN seen
    ELSE UniqueCitationsLoop(source_uris, i + 1,
             AddCitation(seen, format_source_uri(source_uris[i]), source_uris[i]))

\* unique_citations: formatted name -> the first uri with that name, in
\* insertion order
UniqueCitations(source_uris) == UniqueCitationsLoop(source_uris, 1, <<>>)

\* uri_to_citation_number.get(uri, 1)
CitationNumber(unique_citations, uri) ==
    IF \E k \in DOMAIN unique_citations : unique_citations[k].uri = uri
    THEN CHOOSE k \in DOMAIN unique_citations : unique_citations[k].uri = uri
    ELSE 1

\* one turn of `for i, doc in enumerate(retrieved_documents)`
AddDocument(groups, uri, doc) ==
    IF \E k \in DOMAIN groups : groups[k].uri = uri
    THEN [k \in DOMAIN groups |->
             IF groups[k].uri = uri
             THEN [groups[k] EXCEPT !.docs = Append(@, doc)]
             ELSE groups[k]]
    ELSE Append(groups, [uri |-> uri, docs |-> <<doc>>])

RECURSIVE DocGroupsLoop(_, _, _, _)
DocGroupsLoop(retrieved_documents, source_uris, i, groups) ==
    IF i > Len(retrieved_documents) THEN groups
    ELSE DocGroupsLoop(retrieved_documents, source_uris, i + 1,
             IF i <= Len(source_uris)
             THEN AddDocument(groups, source_uris[i], retrieved_documents[i])
             ELSE groups)

\* doc_groups: uri -> documents, in insertion order
DocGroups(retrieved_documents, source_uris) ==
    DocGroupsLoop(retrieved_documents, source_uris, 1, <<>>)

\* the prompt is kept as the sequence of its blocks
Block(kind, n, text) == [kind |-> kind, n |-> n, text |-> text]

\* "[n]:" and the documents of one group
GroupBlocks(unique_citations, group) ==
    <<Block("header", CitationNumber(unique_citations, group.uri), <<>>)>>
    \o [i \in DOMAIN group.docs |-> Block("passage", 0, <<group.docs[i]>>)]

RECURSIVE GroupsBlocks(_, _)
GroupsBlocks(unique_citations, groups) ==
    IF groups = <<>> THEN <<>>
    ELSE GroupBlocks(unique_citations, groups[1])
         \o GroupsBlocks(unique_citations, SubSeq(groups, 2, Len(groups)))

\* "Source documents:" and one "[n]: name" line per unique citation
SourceBlocks(user_language, unique_citations, source_uris) ==
    IF source_uris = <<>> THEN <<>>
    ELSE <<Block("sources", 0, <<user_language>>)>>
         \o [k \in DOMAIN unique_citations |->
                Block("source", CitationNumber(unique_citations, unique_citations[k].uri),
                      format_source_uri(unique_citations[k].uri))]

DocumentBlocks(user_language, unique_citations, doc_groups, source_uris) ==
    <<Block("based_on", 0, <<user_language>>)>>
    \o GroupsBlocks(unique_citations, doc_groups)
    \o SourceBlocks(user_language, unique_citations, source_uris)
    \o <<Block("instruction", 0, <<user_language>>),
         Block("formatting", 0, <<user_language>>)>>

\* the context without the `if retrieved_documents:` test
ContextBlocksOfDocuments(user_language, retrieved_documents, source_uris) ==
    DocumentBlocks(user_language, UniqueCitations(source_uris),
                   DocGroups(retrieved_documents, source_uris), source_uris)

ContextBlocks(user_language, retrieved_documents, source_uris) ==
    IF Truthy(retrieved_documents)
    THEN DocumentBlocks(user_language, UniqueCitations(source_uris),
                        DocGroups(retrieved_documents, source_uris), source_uris)
    ELSE <<Block("general_knowledge", 0, <<user_language>>)>>

\* chat_history[-10:]
LastTen(h) == IF Len(h) > 10 THEN SubSeq(h, Len(h) - 9, Len(h)) ELSE h

HistoryBlocks(user_language, history) ==
    IF history = <<>> THEN <<>>
    ELSE <<Block("history", 0, <<user_language>>)>>
         \o [i \in DOMAIN LastTen(history) |->
                Block("turn", 0, <<LastTen(history)[i].user_message>>
                                 \o LastTen(history)[i].bot_response)]
         \o <<Block("separator", 0, <<>>)>>

FullPrompt(user_language, user_message, retrieved_documents, source_uris, history) ==
    ContextBlocks(user_language, retrieved_documents, source_uris)
    \o HistoryBlocks(user_language, history)
    \o <<Block("message", 0, <<user_message>>), Block("respond_only_in", 0, <<user_language>>)>>

\* what the model answers, as its lines
Completion == <<"See [1] for details.", "", "Rest 60 s.">>
NotInitialized == <<"[Error: Bedrock client not initialized. Check server logs.]">>
GenerationError(user_language) ==
    IF user_language = "es"
    THEN <<"[Error: No se pudo generar respuesta desde Bedrock]">>
    ELSE <<"[Error: Could not generate response from Bedrock]">>
Sorry(user_language) ==
    IF user_language = "es"
    THEN <<"Lo siento, no pude generar una respuesta.">>
    ELSE <<"Sorry, I could not generate a response.">>
\* bedrock_session is None, invoke_model raises, the completion is empty, or not
Outcomes == {"no_client", "raises", "empty", "text"}

\* the stripped non-empty lines, joined as paragraphs
RECURSIVE format_response_text(_)
format_response_text(lines) ==
    IF lines = <<>> THEN <<>>
    ELSE IF lines[1] = "" THEN format_response_text(SubSeq(lines, 2, Len(lines)))
    ELSE <<lines[1]>> \o format_response_text(SubSeq(lines, 2, Len(lines)))

\* f"[{i}] - {formatted_name}"
FormattedCitations(unique_citations) ==
    [i \in DOMAIN unique_citations |-> [n |-> i, name |-> unique_citations[i].name]]

\* the return statements, given the language and the prompt
GenerateReturn(user_language, full_prompt, source_uris, outcome) ==
    IF outcome = "raises"
    THEN [response |-> GenerationError(user_language), citations |-> <<>>,
          prompt |-> full_prompt, lang |-> user_language]
    ELSE [response |-> format_response_text(
                           IF outcome = "empty" THEN Sorry(user_language) ELSE Completion),
          citations |-> FormattedCitations(UniqueCitations(source_uris)),
          prompt |-> full_prompt, lang |-> user_language]

GenerateIn(user_language, user_message, retrieved_documents, source_uris, history, outcome) ==
    GenerateReturn(user_language,
                   FullPrompt(user_language, user_message, retrieved_documents,
                              source_uris, history),
                   source_uris, outcome)

generate_response_with_context(user_message, retrieved_documents, source_uris, history, outcome) ==
    IF outcome = "no_client"
    THEN [response |-> NotInitialized, citations |-> <<>>, prompt |-> <<>>, lang |-> "none"]
    ELSE GenerateIn(get_conversation_language(user_message, history), user_message,
                    retrieved_documents, source_uris, history, outcome)

\* a direct call: the text of the i-th document, the argument lists, the turns
Passage(i) == "passage " \o ToString(i)
Documents == {None} \cup {[i \in 1..n |-> Passage(i)] : n \in 0..MaxDocs}
SeqsUpTo(S, n) == UNION {[1..k -> S] : k \in 0..n}
Turn(text) == [user_message |-> text, bot_response |-> <<"reply">>]

\* the call's arguments and what it returned
Returns(args, r) ==
    [Done("generate", "return", "A", NoConv, "ok")
        EXCEPT !.args = args, !.response = r.response, !.citations = r.citations,
               !.prompt = r.prompt, !.lang = r.lang]

Generate(p, message, docs, uris, history, outcome) ==
    /\ IsIdle(p)
    /\ last' = Returns([message |-> message, docs |-> docs, uris |-> uris,
                        history |-> history, outcome |-> outcome],
                       generate_response_with_context(message, docs, uris, history, outcome))
    /\ UNCHANGED <<conversations, conv_seq, chat_history, msg_seq, clock, task, calls, auth>>

\* ------------------------------------------------------------- chat_endpoint
\* `if not conversation_id:` create one, else go on to the history read
Chat(p, u, c, text) ==
    /\ IsIdle(p)
    /\ LET t == [Request("chat", u, c) EXCEPT !.text = text, !.limit = ChatHistoryLimit] IN
       IF c = NoConv
       THEN CreateStamp(p, t)
       ELSE /\ CheckOwnership(p, t, "get_history", "gh_rows")
            /\ UNCHANGED <<conversations, conv_seq, chat_history, msg_seq, clock, calls, auth>>

\* get_chat_history_async(user_id, conversation_id, 10) on the conversation just made
ChatHistoryCheck(p) ==
    /\ At(p, "gh_check")
    /\ CheckOwnership(p, task[p], "get_history", "gh_rows")
    /\ UNCHANGED <<conversations, conv_seq, chat_history, msg_seq, clock, calls, auth>>

\* retrieved_passages, source_uris = await retrieve_from_knowledge_base_async(...)
ChatRetrieve(p, failed, results) ==
    /\ At(p, "retrieve")
    /\ task' = [task EXCEPT ![p].retrieved = results,
                            ![p].docs = retrieve_from_knowledge_base(results, failed).docs,
                            ![p].uris = retrieve_from_knowledge_base(results, failed).uris,
                            ![p].pc = "generate"]
    /\ last' = Quiet
    /\ UNCHANGED <<conversations, conv_seq, chat_history, msg_seq, clock, calls, auth>>

\* the request calling the generator again after an error reply
AfterGenerateRetrying(t, r) ==
    [t EXCEPT !.response = r.response, !.citations = r.citations, !.prompt = r.prompt,
              !.lang = r.lang,
              !.pc = IF r.response = GenerationError(r.lang) THEN "generate"
                     ELSE "save_check"]

\* the locals of the request after generate_response_with_context_async
AfterGenerate(t, r) ==
    [t EXCEPT !.response = r.response, !.citations = r.citations, !.prompt = r.prompt,
              !.lang = r.lang, !.pc = "save_check"]

\* bot_response, citations = await generate_response_with_context_async(...)
ChatGenerate(p, outcome) ==
    /\ At(p, "generate")
    /\ task' = [task EXCEPT ![p] =
                   AfterGenerate(task[p],
                       generate_response_with_context(task[p].text, task[p].docs,
                           task[p].uris, task[p].rows, outcome))]
    /\ last' = Quiet
    /\ UNCHANGED <<conversations, conv_seq, chat_history, msg_seq, clock, calls, auth>>

\* save_chat_async as called by chat_endpoint
ChatSaveCheck(p) ==
    /\ At(p, "save_check")
    /\ SaveCheck(p, task[p])

\* ------------------------------------------------------------- clock
Tick ==
    /\ clock' = clock + 1
    /\ UNCHANGED <<conversations, conv_seq, chat_history, msg_seq, task, calls, last, auth>>

\* ------------------------------------------------------------- guest sessions (auth.py)
\* The clock counts days here: GUEST_SESSION_DURATION = timedelta(hours=24) is
\* one day, and the store-backed session lives timedelta(days=7).
GUEST_USER_ID == "guest"
GUEST_SESSION_DURATION == 1
PersistentDuration == 7
GuestClock == 9

\* secrets.token_urlsafe(32), secrets.token_hex(3).upper() and
\* "guest_" + secrets.token_urlsafe(16): the tokens a call may draw
SessionIds == {"s1", "s2"}
SessionCodes == {"A1B2C3", "D4E5F6"}
GuestUserIds == {"guest_x", "guest_y"}

\* a mapping without the keys ks
Without(f, ks) == [k \in DOMAIN f \ ks |-> f[k]]

\* `datetime.datetime.utcnow() > expires_at`
Expired(expires_at) == clock > expires_at

\* what a guest-session function hands back: None is the empty sequence
GuestDone(op, step, code, st, session) ==
    [Quiet EXCEPT !.op = op, !.step = step, !.code = code, !.status = st,
                  !.session = session]

create_guest_session(session_id) ==
    LET guest_session == [session_id |-> session_id, user_id |-> GUEST_USER_ID,
                          created_at |-> clock,
                          expires_at |-> clock + GUEST_SESSION_DURATION]
    IN /\ guest_sessions' = (session_id :> guest_session) @@ guest_sessions
       /\ last' = GuestDone("create_guest_session", "return", session_id, "ok",
                            <<guest_session>>)
       /\ UNCHANGED <<conversations, conv_seq, chat_history, msg_seq, clock, task,
                      calls, guest_sessions_db, users, tokens>>

\* the lookup of the in-process dict; an expired entry is removed on the way
get_guest_session(session_id) ==
    /\ IF session_id \notin DOMAIN guest_sessions
       THEN /\ last' = GuestDone("get_guest_session", "missing", session_id,
                                 "NotFound", <<>>)
            /\ UNCHANGED guest_sessions
       ELSE IF Expired(guest_sessions[session_id].expires_at)
       THEN /\ guest_sessions' = Without(guest_sessions, {session_id})
            /\ last' = GuestDone("get_guest_session", "expired", session_id,
                                 "NotFound", <<>>)
       ELSE /\ last' = GuestDone("get_guest_session", "return", session_id, "ok",
                                 <<guest_sessions[session_id]>>)
            /\ UNCHANGED guest_sessions
    /\ UNCHANGED <<conversations, conv_seq, chat_history, msg_seq, clock, task,
                   calls, guest_sessions_db, users, tokens>>

cleanup_expired_guest_sessions ==
    LET expired_sessions == {session_id \in DOMAIN guest_sessions :
                                Expired(guest_sessions[session_id].expires_at)}
    IN /\ guest_sessions' = Without(guest_sessions, expired_sessions)
       /\ last' = GuestDone("cleanup_expired_guest_sessions", "return", "", "ok", <<>>)
       /\ UNCHANGED <<conversations, conv_seq, chat_history, msg_seq, clock, task,
                      calls, guest_sessions_db, users, tokens>>

\* f"Guest_{session_code}"
GuestUsername(session_code) == "Guest_" \o session_code

\* users.id is the PRIMARY KEY and users.username is UNIQUE
UserInsertFails(id, username) ==
    \/ id \in DOMAIN users
    \/ \E u \in DOMAIN users : users[u].username = username

\* INSERT INTO users (...) VALUES (guest_user_id, "Guest_<code>", None, True, now, now)
WithGuestUser(guest_user_id, session_code) ==
    (guest_user_id :> [username |-> GuestUsername(session_code),
                       password_hash |-> None, is_guest |-> TRUE,
                       created_at |-> clock, updated_at |-> clock])
    @@ users

\* INSERT OR REPLACE INTO guest_sessions VALUES (session_code, guest_user_id, now, now + 7 days)
WithGuestSession(guest_user_id, session_code) ==
    (session_code :> [user_id |-> guest_user_id, created_at |-> clock,
                      expires_at |-> clock + PersistentDuration])
    @@ guest_sessions_db

\* the dict create_persistent_guest_session returns
PersistentSession(guest_user_id, session_code) ==
    [user_id |-> guest_user_id, session_code |-> session_code,
     username |-> GuestUsername(session_code), created_at |-> clock,
     expires_at |-> clock + PersistentDuration]

\* INSERT INTO users, INSERT OR REPLACE INTO guest_sessions, commit(); an
\* INSERT that breaks a constraint raises and nothing is committed
create_persistent_guest_session(guest_user_id, session_code) ==
    /\ IF UserInsertFails(guest_user_id, GuestUsername(session_code))
       THEN /\ last' = GuestDone("create_persistent_guest_session", "insert",
                                 session_code, "InternalFault", <<>>)
            /\ UNCHANGED <<guest_sessions_db, users>>
       ELSE /\ users' = WithGuestUser(guest_user_id, session_code)
            /\ guest_sessions_db' = WithGuestSession(guest_user_id, session_code)
            /\ last' = GuestDone("create_persistent_guest_session", "return",
                                 session_code, "ok",
                                 <<PersistentSession(guest_user_id, session_code)>>)
    /\ UNCHANGED <<conversations, conv_seq, chat_history, msg_seq, clock, task,
                   calls, guest_sessions, tokens>>

\* the lookup without its `DELETE FROM users`
DeleteUserSkipped(user_id) == users

\* DELETE FROM users WHERE id = ?
DeleteUser(user_id) == Without(users, {user_id})

\* SELECT ... FROM guest_sessions gs JOIN users u ON gs.user_id = u.id
\* WHERE gs.session_id = ?
JoinedSession(session_code) ==
    {c \in DOMAIN guest_sessions_db \cap {session_code} :
        guest_sessions_db[c].user_id \in DOMAIN users}

\* the lookup of the stored session; an expired one goes with its guest user
get_guest_session_by_code(session_code) ==
    /\ IF JoinedSession(session_code) = {}
       THEN /\ last' = GuestDone("get_guest_session_by_code", "missing",
                                 session_code, "NotFound", <<>>)
            /\ UNCHANGED <<guest_sessions_db, users>>
       ELSE LET row == guest_sessions_db[session_code]
            IN IF Expired(row.expires_at)
               THEN /\ guest_sessions_db' = Without(guest_sessions_db, {session_code})
                    /\ users' = DeleteUser(row.user_id)
                    /\ last' = GuestDone("get_guest_session_by_code", "expired",
                                         session_code, "NotFound", <<>>)
               ELSE /\ last' = GuestDone("get_guest_session_by_code", "return",
                                         session_code, "ok",
                                         <<[user_id |-> row.user_id,
                                            username |-> users[row.user_id].username,
                                            created_at |-> row.created_at,
                                            expires_at |-> row.expires_at]>>)
                    /\ UNCHANGED <<guest_sessions_db, users>>
    /\ UNCHANGED <<conversations, conv_seq, chat_history, msg_seq, clock, task,
                   calls, guest_sessions, tokens>>

\* SELECT user_id ... WHERE expires_at < now, then the two DELETE ... IN (...)
cleanup_expired_guest_sessions_db ==
    LET expired_user_ids == {guest_sessions_db[c].user_id :
                                c \in {k \in DOMAIN guest_sessions_db :
                                          guest_sessions_db[k].expires_at < clock}}
    IN /\ guest_sessions_db' =
             Without(guest_sessions_db,
                     {c \in DOMAIN guest_sessions_db :
                         guest_sessions_db[c].user_id \in expired_user_ids})
       /\ users' = Without(users, expired_user_ids)
       /\ last' = GuestDone("cleanup_expired_guest_sessions_db", "return", "", "ok",
                            <<>>)
       /\ UNCHANGED <<conversations, conv_seq, chat_history, msg_seq, clock, task,
                      calls, guest_sessions, tokens>>

\* ------------------------------------------------------------- access tokens (auth.py)
\* timedelta(days=7), the default lifetime of a token, in days
TokenDays == 7

\* jwt.encode(to_encode, ...): the data with its "exp"; username "" stands for
\* a payload without that key
create_access_token(sub, username, is_guest) ==
    [sub |-> sub, username |-> username, is_guest |-> is_guest, exp |-> clock + TokenDays]

\* the bearer tokens a client can send: what the server signed, a copy of it
\* with another signature, or something that is no JWT
Bearers ==
    {Bearer("signed", t) : t \in tokens}
    \cup {Bearer("bad_signature", t) : t \in tokens}
    \cup {Bearer("malformed", NoPayload)}

Raised(detail) == [raised |-> TRUE, detail |-> detail, payload |-> NoPayload]

\* jwt.decode checks the form and the signature, then "exp"
verify_token(bearer) ==
    IF bearer.form # "signed" THEN Raised("Could not validate credentials")
    ELSE IF bearer.payload.exp <= clock THEN Raised("Token has expired")
    ELSE [raised |-> FALSE, detail |-> "", payload |-> bearer.payload]

NoUser == [id |-> "", username |-> "", is_guest |-> FALSE]
Unauthorized(detail) == [status |-> "Unauthorized", detail |-> detail, user |-> NoUser]
Authenticated(user) == [status |-> "ok", detail |-> "", user |-> user]

\* the HTTPException of verify_token passed on as it is
Reraised(detail) == detail

\* `except HTTPException: pass`, then the raise at the end of get_current_user
AfterExcept(detail) == "Invalid authentication credentials"

\* SELECT ... FROM users WHERE id = ?: the row, or None as the empty sequence
get_user_by_id(user_id) ==
    IF user_id \in DOMAIN users
    THEN <<[id |-> user_id, username |-> users[user_id].username,
            is_guest |-> users[user_id].is_guest]>>
    ELSE <<>>

get_current_user(bearer) ==
    IF verify_token(bearer).raised
    THEN Unauthorized(AfterExcept(verify_token(bearer).detail))
    ELSE LET payload == verify_token(bearer).payload
         IN IF payload.is_guest
            THEN Authenticated([id |-> payload.sub,
                                username |-> IF payload.username = "" THEN "guest"
                                             ELSE payload.username,
                                is_guest |-> TRUE])
            ELSE IF payload.sub # "" /\ get_user_by_id(payload.sub) # <<>>
            THEN Authenticated(get_user_by_id(payload.sub)[1])
            ELSE Unauthorized("Invalid authentication credentials")

AuthDone(op, bearer, r) ==
    [Quiet EXCEPT !.op = op, !.step = "return", !.status = r.status,
                  !.detail = r.detail, !.user = r.user.id, !.bearer = bearer]

\* GET /auth/me
get_current_user_info(bearer) ==
    /\ last' = AuthDone("get_current_user", bearer, get_current_user(bearer))
    /\ UNCHANGED <<conversations, conv_seq, chat_history, msg_seq, clock, task, calls, auth>>

\* ------------------------------------------------------------- accounts (auth.py, main.py)
Usernames == {"ana"}
Passwords == {"pw1", "pw2"}
\* secrets.token_urlsafe(16)
RegisteredIds == {"u1"}

\* bcrypt.hashpw and bcrypt.checkpw: the hash matches the password it was made of
hash_password(password) == <<"bcrypt", password>>

\* hashed_password.encode('utf-8') of None raises AttributeError
verify_password(password, hashed_password) ==
    IF hashed_password = None THEN "AttributeError"
    ELSE IF hashed_password = hash_password(password) THEN "True"
    ELSE "False"

\* SELECT ... FROM users WHERE username = ?; username is UNIQUE
get_user_by_username(username) == {u \in DOMAIN users : users[u].username = username}

Answer(op, username, password, st, detail, id) ==
    [Quiet EXCEPT !.op = op, !.step = "return", !.status = st, !.detail = detail,
                  !.user = id, !.username = username, !.password = password]

\* POST /auth/register
register_user(username, password, user_id) ==
    /\ IF get_user_by_username(username) # {}
       THEN /\ last' = Answer("register", username, password, "BadRequest",
                              "Username already registered", "")
            /\ UNCHANGED <<users, tokens>>
       ELSE IF user_id \in DOMAIN users
       THEN /\ last' = Answer("register", username, password, "InternalFault", "", "")
            /\ UNCHANGED <<users, tokens>>
       ELSE /\ users' = (user_id :> [username |-> username,
                                      password_hash |-> hash_password(password),
                                      is_guest |-> FALSE,
                                      created_at |-> clock, updated_at |-> clock])
                        @@ users
            /\ tokens' = tokens \cup {create_access_token(user_id, "", FALSE)}
            /\ last' = Answer("register", username, password, "ok", "", user_id)
    /\ UNCHANGED <<conversations, conv_seq, chat_history, msg_seq, clock, task,
                   calls, guest_sessions, guest_sessions_db>>

\* POST /auth/login: authenticate_user, then the token or the 401
login_user(username, password) ==
    /\ IF get_user_by_username(username) = {}
       THEN /\ last' = Answer("login", username, password, "Unauthorized",
                              "Incorrect username or password", "")
            /\ UNCHANGED tokens
       ELSE LET id == CHOOSE u \in get_user_by_username(username) : TRUE
                verified == verify_password(password, users[id].password_hash)
            IN IF verified = "AttributeError"
               THEN /\ last' = Answer("login", username, password, "InternalFault", "", "")
                    /\ UNCHANGED tokens
               ELSE IF verified = "False"
               THEN /\ last' = Answer("login", username, password, "Unauthorized",
                                      "Incorrect username or password", "")
                    /\ UNCHANGED tokens
               ELSE /\ tokens' = tokens \cup {create_access_token(id, "", FALSE)}
                    /\ last' = Answer("login", username, password, "ok", "", id)
    /\ UNCHANGED <<conversations, conv_seq, chat_history, msg_seq, clock, task,
                   calls, guest_sessions, guest_sessions_db, users>>

\* POST /auth/guest: create_persistent_guest_session and a token for its user
create_guest_session_endpoint(guest_user_id, session_code) ==
    /\ IF UserInsertFails(guest_user_id, GuestUsername(session_code))
       THEN /\ last' = GuestDone("guest", "insert", session_code, "InternalFault", <<>>)
            /\ UNCHANGED <<guest_sessions_db, users, tokens>>
       ELSE /\ users' = WithGuestUser(guest_user_id, session_code)
            /\ guest_sessions_db' = WithGuestSession(guest_user_id, session_code)
            /\ tokens' = tokens \cup {create_access_token(guest_user_id,
                                          GuestUsername(session_code), TRUE)}
            /\ last' = GuestDone("guest", "return", session_code, "ok",
                                 <<PersistentSession(guest_user_id, session_code)>>)
    /\ UNCHANGED <<conversations, conv_seq, chat_history, msg_seq, clock, task,
                   calls, guest_sessions>>

\* POST /auth/guest/join: get_guest_session_by_code, then the token or the 404
join_guest_session(session_code) ==
    /\ IF JoinedSession(session_code) = {}
       THEN /\ last' = GuestDone("join", "missing", session_code, "NotFound", <<>>)
            /\ UNCHANGED <<guest_sessions_db, users, tokens>>
       ELSE LET row == guest_sessions_db[session_code]
            IN IF Expired(row.expires_at)
               THEN /\ guest_sessions_db' = Without(guest_sessions_db, {session_code})
                    /\ users' = DeleteUser(row.user_id)
                    /\ last' = GuestDone("join", "expired", session_code, "NotFound", <<>>)
                    /\ UNCHANGED tokens
               ELSE /\ tokens' = tokens \cup {create_access_token(row.user_id,
                                                 users[row.user_id].username, TRUE)}
                    /\ last' = GuestDone("join", "return", session_code, "ok",
                                         <<[user_id |-> row.user_id,
                                            username |-> users[row.user_id].username,
                                            created_at |-> row.created_at,
                                            expires_at |-> row.expires_at]>>)
                    /\ UNCHANGED <<guest_sessions_db, users>>
    /\ UNCHANGED <<conversations, conv_seq, chat_history, msg_seq, clock, task,
                   calls, guest_sessions>>

\* POST /conversations with current_user = Depends(get_current_user)
create_conversation(p, bearer, title) ==
    IF get_current_user(bearer).status = "ok"
    THEN CreateConversation(p, get_current_user(bearer).user.id, title)
    ELSE /\ last' = AuthDone("create", bearer, get_current_user(bearer))
         /\ UNCHANGED <<conversations, conv_seq, chat_history, msg_seq, clock, task,
                        calls, auth>>

\* DELETE /conversations/{id} with current_user = Depends(get_current_user)
delete_conversation(p, bearer, c) ==
    IF get_current_user(bearer).status = "ok"
    THEN DeleteConversation(p, get_current_user(bearer).user.id, c)
    ELSE /\ last' = AuthDone("delete", bearer, get_current_user(bearer))
         /\ UNCHANGED <<conversations, conv_seq, chat_history, msg_seq, clock, task,
                        calls, auth>>

\* ------------------------------------------------------------- Init
Init ==
    /\ conversations = <<>>
    /\ conv_seq = 0
    /\ chat_history = <<>>
    /\ msg_seq = 0
    /\ clock = 1
    /\ task = [p \in Tasks |-> Idle]
    /\ calls = 0
    /\ guest_sessions = <<>>
    /\ guest_sessions_db = <<>>
    /\ users = <<>>
    /\ tokens = {}
    /\ last = Quiet

\* the response of the request that just ended reaches its caller
Deliver ==
    /\ last # Quiet
    /\ last' = Quiet
    /\ UNCHANGED <<conversations, conv_seq, chat_history, msg_seq, clock, task, calls, auth>>

Ready == last = Quiet

\* every route; the two users' requests are served one at a time
Next ==
    \/ Deliver
    \/ Ready /\ clock < MaxClock /\ Tick
    \/ /\ Ready
       /\ \E u \in Users :
          \/ \E c \in 1..MaxConv : GetHistory(1, u, c, HistoryLimit)
          \/ GetHistoryLatest(1, u, HistoryLimit)
          \/ \E c \in 1..MaxConv, text \in Texts :
                RoomForMessage(MaxMsg) /\ SaveMessage(1, u, c, text)
          \/ \E c \in 1..MaxConv, title \in NewTitles : UpdateTitle(1, u, c, title)
          \/ \E c \in 1..MaxConv : DeleteConversation(1, u, c)
          \/ \E title \in Titles :
                RoomForConversation(MaxConv) /\ CreateConversation(1, u, title)
          \/ \E c \in 0..MaxConv, text \in Texts :
                /\ RoomForMessage(MaxMsg)
                /\ c = NoConv => RoomForConversation(MaxConv)
                /\ Chat(1, u, c, text)
          \/ GetConversations(1, u)
          \/ ClearHistory(1, u)
    \/ /\ Ready
       /\ \/ GetHistoryRows(1)
          \/ SaveStamp(1)
          \/ SaveCommit(1)
          \/ TitleStamp(1)
          \/ TitleCommit(1)
          \/ DeleteCommit(1)
          \/ CreateCommit(1)
          \/ ChatHistoryCheck(1)
          \/ ChatRetrieve(1, TRUE, <<>>)
          \/ ChatGenerate(1, "text")
          \/ ChatSaveCheck(1)

Spec == Init /\ [][Next]_vars

\* user A's requests racing each other on the conversation A created at time 1
InitRace ==
    /\ conversations = (1 :> [user_id |-> "A", title |-> DefaultTitle(1),
                              created_at |-> 1, updated_at |-> 1])
    /\ conv_seq = 1
    /\ chat_history = <<>>
    /\ msg_seq = 0
    /\ clock = 1
    /\ task = [p \in Tasks |-> Idle]
    /\ calls = 0
    /\ guest_sessions = <<>>
    /\ guest_sessions_db = <<>>
    /\ users = <<>>
    /\ tokens = {}
    /\ last = Quiet

NextRace ==
    \/ Deliver
    \/ Ready /\ clock < RaceClock /\ Tick
    \/ /\ Ready
       /\ \E p \in Tasks :
          \/ \E text \in Texts : RoomForMessage(RaceMsg) /\ SaveMessage(p, "A", 1, text)
          \/ \E title \in NewTitles : UpdateTitle(p, "A", 1, title)
          \/ DeleteConversation(p, "A", 1)
          \/ SaveStamp(p)
          \/ SaveCommit(p)
          \/ TitleStamp(p)
          \/ TitleCommit(p)
          \/ DeleteCommit(p)

SpecRace == InitRace /\ [][NextRace]_vars

\* user A saving turns and reading them back with every LIMIT
NextHistory ==
    \/ Deliver
    \/ /\ Ready
       /\ \/ \E c \in 1..HistConv, n \in Limits : GetHistory(1, "A", c, n)
          \/ \E c \in 1..HistConv, text \in Texts :
                RoomForMessage(HistMsg) /\ SaveMessage(1, "A", c, text)
          \/ \E c \in 1..HistConv : DeleteConversation(1, "A", c)
          \/ \E title \in Titles :
                RoomForConversation(HistConv) /\ CreateConversation(1, "A", title)
          \/ GetHistoryRows(1)
          \/ SaveStamp(1)
          \/ SaveCommit(1)
          \/ DeleteCommit(1)
          \/ CreateCommit(1)

SpecHistory == Init /\ [][NextHistory]_vars

\* users saving turns in several conversations and reading GET /history
NextLatest ==
    \/ Deliver
    \/ Ready /\ clock < LatestClock /\ Tick
    \/ /\ Ready
       /\ \E u \in Users :
          \/ \E n \in Limits : GetHistoryLatest(1, u, n)
          \/ \E c \in 1..LatestConv, text \in Texts :
                RoomForMessage(LatestMsg) /\ SaveMessage(1, u, c, text)
          \/ \E title \in Titles :
                RoomForConversation(LatestConv) /\ CreateConversation(1, u, title)
    \/ /\ Ready
       /\ \/ SaveStamp(1)
          \/ SaveCommit(1)
          \/ CreateCommit(1)

SpecLatest == Init /\ [][NextLatest]_vars

\* generate_response_with_context_async called with every argument list
NextGenerate ==
    \/ Deliver
    \/ /\ Ready
       /\ \E message \in GenTexts, docs \in Documents, uris \in SeqsUpTo(Locators, MaxUris),
             texts \in SeqsUpTo(HistoryTexts, MaxHistory), outcome \in Outcomes :
             Generate(1, message, docs, uris, [i \in DOMAIN texts |-> Turn(texts[i])], outcome)

SpecGenerate == Init /\ [][NextGenerate]_vars

\* POST /chat end to end: what the retriever finds and how the generation ends
RetrievalResults ==
    { <<>>,
      <<Result(Passage(1), ProgramMd)>>,
      <<Result(Passage(1), ProgramMd), Result(Passage(2), ProgramMd),
        Result(Passage(3), GuideMd)>>,
      <<Result(Passage(1), NoUri), Result(Passage(2), GuideMd)>>,
      <<Result("", GuideMd), Result(Passage(2), ProgramMd)>> }
ChatOutcomes == {"no_client", "raises", "text"}

NextChat ==
    \/ Deliver
    \/ /\ Ready
       /\ \/ \E c \in 0..ChatConv, text \in ChatTexts :
                /\ RoomForMessage(ChatMsg)
                /\ c = NoConv => RoomForConversation(ChatConv)
                /\ Chat(1, "A", c, text)
          \/ \E c \in 1..ChatConv : GetHistory(1, "A", c, HistoryLimit)
          \/ CreateCommit(1)
          \/ ChatHistoryCheck(1)
          \/ GetHistoryRows(1)
          \/ ChatRetrieve(1, TRUE, <<>>)
          \/ \E results \in RetrievalResults : ChatRetrieve(1, FALSE, results)
          \/ \E outcome \in ChatOutcomes : ChatGenerate(1, outcome)
          \/ ChatSaveCheck(1)
          \/ SaveStamp(1)
          \/ SaveCommit(1)
          \/ SaveFault(1)

SpecChat == Init /\ [][NextChat]_vars

\* the guest-session functions of auth.py as the days pass
NextGuest ==
    \/ Deliver
    \/ Ready /\ clock < GuestClock /\ Tick
    \/ /\ Ready
       /\ \/ \E session_id \in SessionIds :
                \/ create_guest_session(session_id)
                \/ get_guest_session(session_id)
          \/ cleanup_expired_guest_sessions
          \/ \E guest_user_id \in GuestUserIds, session_code \in SessionCodes :
                create_persistent_guest_session(guest_user_id, session_code)
          \/ \E session_code \in SessionCodes : get_guest_session_by_code(session_code)
          \/ cleanup_expired_guest_sessions_db

SpecGuest == Init /\ [][NextGuest]_vars

\* detect_language and get_conversation_language called on their own
MaxTurns == 3
TurnTexts == HistoryTexts \cup {""}

Detect(text) ==
    /\ last' = [Quiet EXCEPT !.op = "detect_language", !.step = "return",
                             !.status = "ok",
                             !.args = [NoArgs EXCEPT !.message = text],
                             !.lang = detect_language(text)]
    /\ UNCHANGED <<conversations, conv_seq, chat_history, msg_seq, clock, task, calls, auth>>

Resolve(user_message, history) ==
    /\ last' = [Quiet EXCEPT !.op = "get_conversation_language", !.step = "return",
                             !.status = "ok",
                             !.args = [NoArgs EXCEPT !.message = user_message,
                                                     !.history = history],
                             !.lang = get_conversation_language(user_message, history)]
    /\ UNCHANGED <<conversations, conv_seq, chat_history, msg_seq, clock, task, calls, auth>>

NextLanguage ==
    \/ Deliver
    \/ Ready /\ \E text \in DetectTexts : Detect(text)
    \/ Ready /\ \E user_message \in GenTexts, texts \in SeqsUpTo(TurnTexts, MaxTurns) :
                   Resolve(user_message, [i \in DOMAIN texts |-> Turn(texts[i])])

SpecLanguage == Init /\ [][NextLanguage]_vars

\* the users' conversation lists while conversations come, grow and go
ListConv == 3
ListMsg == 2
ListClock == 2

NextConversations ==
    \/ Deliver
    \/ Ready /\ clock < ListClock /\ Tick
    \/ /\ Ready
       /\ \E u \in Users :
          \/ GetConversations(1, u)
          \/ \E c \in 1..ListConv :
                RoomForMessage(ListMsg) /\ SaveMessage(1, u, c, "hello")
          \/ \E c \in 1..ListConv : DeleteConversation(1, u, c)
          \/ RoomForConversation(ListConv) /\ CreateConversation(1, u, "")
    \/ /\ Ready
       /\ \/ SaveStamp(1)
          \/ SaveCommit(1)
          \/ DeleteCommit(1)
          \/ CreateCommit(1)

SpecConversations == Init /\ [][NextConversations]_vars

\* format_source_uri called on its own: a scheme and host or none, up to
\* MaxDepth directories, and a file name, which a key ending in '/' leaves empty
MaxDepth == 2
Schemes == { << <<"s3:">>, <<>>, <<"bucket">> >>,
             << <<"https:">>, <<>>, <<"example.com">> >>,
             << <<"C:", "\\", "kb">> >>,
             <<>> }
Directories == {<<"docs">>, <<"v2">>}
FileNames == { <<>>,
               <<"Program", "_", "3", ".", "md">>,
               <<"Program", "-", "3", ".", "pdf">>,
               <<"Guide", ".", "md">>,
               <<"Guide", ".", "v2", ".", "md">>,
               <<"notes">>,
               <<".", "hidden">>,
               <<"old", "\\", "Guide", ".", "md">> }
FormatUris ==
    {scheme \o dirs \o <<name>> :
        scheme \in Schemes, dirs \in SeqsUpTo(Directories, MaxDepth), name \in FileNames}

Format(uri) ==
    /\ last' = [Quiet EXCEPT !.op = "format_source_uri", !.step = "return",
                             !.status = "ok",
                             !.args = [NoArgs EXCEPT !.uris = <<uri>>],
                             !.response = format_source_uri(uri)]
    /\ UNCHANGED <<conversations, conv_seq, chat_history, msg_seq, clock, task, calls, auth>>

NextFormat ==
    \/ Deliver
    \/ Ready /\ \E uri \in FormatUris : Format(uri)

SpecFormat == Init /\ [][NextFormat]_vars

\* accounts and tokens over the days.  It starts with a token in circulation
\* that was signed for a registered user while the users table has since been
\* made anew.
AuthClock == 9
MaxTokens == 3
StaleToken == [sub |-> "u0", username |-> "", is_guest |-> FALSE, exp |-> AuthClock + 1]
LoginNames == Usernames \cup {GuestUsername(c) : c \in SessionCodes}

InitAuth ==
    /\ conversations = <<>>
    /\ conv_seq = 0
    /\ chat_history = <<>>
    /\ msg_seq = 0
    /\ clock = 1
    /\ task = [p \in Tasks |-> Idle]
    /\ calls = 0
    /\ last = Quiet
    /\ guest_sessions = <<>>
    /\ guest_sessions_db = <<>>
    /\ users = <<>>
    /\ tokens = {StaleToken}

RoomForToken(k) == Cardinality(tokens) < k

NextAuth ==
    \/ Deliver
    \/ Ready /\ clock < AuthClock /\ Tick
    \/ /\ Ready
       /\ RoomForToken(MaxTokens)
       /\ \/ \E username \in Usernames, password \in Passwords, user_id \in RegisteredIds :
                register_user(username, password, user_id)
          \/ \E username \in LoginNames, password \in Passwords :
                login_user(username, password)
          \/ \E guest_user_id \in GuestUserIds, session_code \in SessionCodes :
                create_guest_session_endpoint(guest_user_id, session_code)
    \/ Ready /\ \E bearer \in Bearers : get_current_user_info(bearer)

SpecAuth == InitAuth /\ [][NextAuth]_vars

\* guests and a registered user making and deleting conversations with their
\* tokens while the guest sessions expire
OwnerClock == 9
OwnerTokens == 2
OwnerConv == 1

NextOwners ==
    \/ Deliver
    \/ Ready /\ clock < OwnerClock /\ Tick
    \/ /\ Ready
       /\ RoomForToken(OwnerTokens)
       /\ \/ \E username \in Usernames, user_id \in RegisteredIds :
                register_user(username, "pw1", user_id)
          \/ \E guest_user_id \in GuestUserIds, session_code \in SessionCodes :
                create_guest_session_endpoint(guest_user_id, session_code)
          \/ \E session_code \in SessionCodes : join_guest_session(session_code)
    \/ /\ Ready
       /\ \E bearer \in Bearers :
             \/ RoomForConversation(OwnerConv) /\ create_conversation(1, bearer, "")
             \/ \E c \in 1..OwnerConv : delete_conversation(1, bearer, c)
    \/ /\ Ready
       /\ \/ cleanup_expired_guest_sessions_db
          \/ CreateCommit(1)
          \/ DeleteCommit(1)

SpecOwners == Init /\ [][NextOwners]_vars

\* two users reading conversation histories by id, the ids 0, of deleted and
\* of never created conversations among them
ReadConv == 2
ReadMsg == 2

NextRead ==
    \/ Deliver
    \/ /\ Ready
       /\ \E u \in Users :
          \/ \E c \in 0..(ReadConv + 1) : get_conversation_history(1, u, c)
          \/ \E c \in 1..ReadConv :
                RoomForMessage(ReadMsg) /\ SaveMessage(1, u, c, "hello")
          \/ \E c \in 1..ReadConv : DeleteConversation(1, u, c)
          \/ RoomForConversation(ReadConv) /\ CreateConversation(1, u, "")
    \/ /\ Ready
       /\ \/ GetHistoryRows(1)
          \/ SaveStamp(1)
          \/ SaveCommit(1)
          \/ DeleteCommit(1)
          \/ CreateCommit(1)

SpecRead == Init /\ [][NextRead]_vars

\* one user chatting on in one conversation, turn after turn
TurnConv == 1
TurnMsg == 5

NextTurns ==
    \/ Deliver
    \/ /\ Ready
       /\ \/ \E c \in 0..TurnConv, text \in ChatTexts :
                /\ RoomForMessage(TurnMsg)
                /\ c = NoConv => RoomForConversation(TurnConv)
                /\ Chat(1, "A", c, text)
          \/ CreateCommit(1)
          \/ ChatHistoryCheck(1)
          \/ GetHistoryRows(1)
          \/ ChatRetrieve(1, TRUE, <<>>)
          \/ ChatGenerate(1, "text")
          \/ ChatSaveCheck(1)
          \/ SaveStamp(1)
          \/ SaveCommit(1)

SpecTurns == Init /\ [][NextTurns]_vars

\* ------------------------------------------------------------- properties
BelongsTo(c, u) == c \in DOMAIN conversations /\ conversations[c].user_id = u
MessagesOf(c) == {i \in DOMAIN chat_history : chat_history[i].conversation_id = c}
MessagesOfNext(c) == {i \in DOMAIN chat_history' : chat_history'[i].conversation_id = c}
NewMessages == DOMAIN chat_history' \ DOMAIN chat_history
Enters(p, pcs) == task'[p].pc \in pcs /\ task[p].pc # task'[p].pc
Leaves(p, pc) == task[p].pc = pc /\ task'[p].pc # pc
Failed(ops) == last' # Quiet /\ last'.op \in ops /\ last'.status = "NotFound"
Returned(op, step) == last.op = op /\ last.step = step /\ last.status = "ok"
RowIds(rows) == {rows[k].id : k \in DOMAIN rows}

\* C1: a get_history or save_message on a conversation that does not belong
\* to the caller never gets past the ownership check; it ends NotFound, returns
\* no message, and leaves the conversations and messages tables as they were.
C1_ForeignAccessNotFound ==
    [][ /\ \A p \in Tasks :
              Enters(p, {"gh_rows", "save_stamp"})
                 => BelongsTo(task'[p].conv, task'[p].user)
        /\ Failed({"get_history", "save"})
              => tables' = tables /\ last'.rows = <<>> ]_vars

C1_Witness ==
    /\ last.op = "save" /\ last.status = "NotFound" /\ last.user = "B"
    /\ BelongsTo(last.conv, "A")

\* the user a step is taken for
ActsFor(u) ==
    \/ last' # Quiet /\ last'.user = u
    \/ \E p \in Tasks :
          /\ task'[p] # task[p]
          /\ IF task[p].pc = "idle" THEN task'[p].user = u ELSE task[p].user = u

\* the rows of other users are the same after the step, and none is added
ForeignUntouched(u) ==
    /\ \A c \in DOMAIN conversations :
          conversations[c].user_id # u
             => /\ c \in DOMAIN conversations'
                /\ conversations'[c] = conversations[c]
                /\ MessagesOfNext(c) = MessagesOf(c)
                /\ \A i \in MessagesOf(c) : chat_history'[i] = chat_history[i]
    /\ \A c \in DOMAIN conversations' \ DOMAIN conversations :
          conversations'[c].user_id = u

\* what the step returns belongs to no other user
ReturnsOwn(u) ==
    /\ \A k \in DOMAIN last'.rows :
          \A v \in Users \ {u} : ~BelongsTo(last'.rows[k].conversation_id, v)
    /\ \A k \in DOMAIN last'.convs : last'.convs[k].user_id = u

\* C2 (as stated): no operation of a user returns, changes or deletes a
\* conversation or message row of another user, DELETE /history included.
C2_NoForeignRowTouched ==
    [][ \A u \in Users : ActsFor(u) => ForeignUntouched(u) /\ ReturnsOwn(u) ]_vars

\* C2 (amended): the same for every operation but DELETE /history, which
\* deletes the messages of every user and leaves the conversations alone.
C2_NoForeignRowTouchedButClear ==
    [][ /\ \A u \in Users :
              ActsFor(u) /\ last'.op # "clear_history"
                 => ForeignUntouched(u) /\ ReturnsOwn(u)
        /\ last'.op = "clear_history"
              => conversations' = conversations /\ chat_history' = <<>> ]_vars

C2_Witness ==
    /\ last.op = "get_history" /\ last.step = "latest" /\ last.user = "B"
    /\ last.rows = <<>>
    /\ \E c \in DOMAIN conversations : BelongsTo(c, "A") /\ MessagesOf(c) # {}

\* C3: update_title and delete_conversation get past the ownership check only
\* on a conversation of the caller; on any other id they end NotFound and
\* every conversation row and message row is as it was.
C3_VerifyBeforeMutation ==
    [][ /\ \A p \in Tasks :
              Enters(p, {"title_stamp", "delete_commit"})
                 => BelongsTo(task'[p].conv, task'[p].user)
        /\ Failed({"update_title", "delete"})
              => tables' = tables /\ ~BelongsTo(last'.conv, last'.user) ]_vars

C3_Witness ==
    /\ last.op = "delete" /\ last.status = "NotFound" /\ last.user = "B"
    /\ BelongsTo(last.conv, "A")
    /\ MessagesOf(last.conv) # {}

\* C4 (as stated): every message names a conversation that exists.
C4_NoOrphanMessage ==
    \A i \in DOMAIN chat_history : chat_history[i].conversation_id \in DOMAIN conversations

\* C5: the commit of delete_conversation(user, c) leaves no row c and no
\* message of c, and every other conversation and message as it was; the id
\* is never used again, and get_history on it ends NotFound.
C5_DeleteCascades ==
    [][ /\ last' # Quiet /\ last'.op = "delete" /\ last'.status = "ok"
              => /\ last'.conv \notin DOMAIN conversations'
                 /\ MessagesOfNext(last'.conv) = {}
                 /\ \A c \in DOMAIN conversations \ {last'.conv} :
                       /\ c \in DOMAIN conversations'
                       /\ conversations'[c] = conversations[c]
                       /\ MessagesOfNext(c) = MessagesOf(c)
                       /\ \A i \in MessagesOf(c) : chat_history'[i] = chat_history[i]
        /\ \A c \in 1..conv_seq :
              c \notin DOMAIN conversations => c \notin DOMAIN conversations'
        /\ \A p \in Tasks :
              Enters(p, {"gh_rows"}) => task'[p].conv \in DOMAIN conversations
        /\ Failed({"get_history"}) => last'.rows = <<>> ]_vars

C5_Witness ==
    /\ last.op = "get_history" /\ last.status = "NotFound"
    /\ last.conv \in 1..conv_seq /\ last.conv \notin DOMAIN conversations
    /\ \E c \in DOMAIN conversations : MessagesOf(c) # {}

\* C6: the step that makes a message of save_message visible is the step that
\* sets the conversation's updated_at to the message's timestamp, and
\* updated_at changes in no other step but the commit of update_title.
C6_SaveEffectsTogether ==
    [][ /\ \A p \in Tasks :
              Leaves(p, "save_commit")
                 => \E i \in NewMessages :
                       /\ chat_history'[i].conversation_id = task[p].conv
                       /\ chat_history'[i].timestamp = task[p].ts
        /\ \A i \in NewMessages :
              LET c == chat_history'[i].conversation_id IN
              c \in DOMAIN conversations'
                 => conversations'[c].updated_at = chat_history'[i].timestamp
        /\ \A c \in DOMAIN conversations \cap DOMAIN conversations' :
              conversations'[c].updated_at # conversations[c].updated_at
                 => \/ \E i \in NewMessages :
                          /\ chat_history'[i].conversation_id = c
                          /\ chat_history'[i].timestamp = conversations'[c].updated_at
                    \/ \E p \in Tasks : Leaves(p, "title_commit") ]_vars

C6_Witness ==
    /\ last.op = "save" /\ last.status = "ok"
    /\ \E i \in DOMAIN chat_history :
          /\ BelongsTo(chat_history[i].conversation_id, "A")
          /\ conversations[chat_history[i].conversation_id].updated_at
                = chat_history[i].timestamp
          /\ conversations[chat_history[i].conversation_id].created_at
                < chat_history[i].timestamp

\* C7 (as stated): the commit of a save_message never lowers updated_at.
C7_UpdatedAtNeverDecreases ==
    [][ \A p \in Tasks :
           Leaves(p, "save_commit")
              => \A c \in DOMAIN conversations \cap DOMAIN conversations' :
                    conversations'[c].updated_at >= conversations[c].updated_at ]_vars

\* C8 (as stated): within a conversation the messages are stored (ascending
\* id) in the order their save_message calls were made.
C8_StoredInCallOrder ==
    \A i, j \in DOMAIN chat_history :
       /\ chat_history[i].conversation_id = chat_history[j].conversation_id
       /\ i < j
       => chat_history[i].call < chat_history[j].call

\* C9 (as stated): get_history(user, c, limit) returns messages of c, the one
\* saved earlier at the smaller index.
C9_OldestFirst ==
    Returned("get_history", "rows")
       => /\ \A k \in DOMAIN last.rows : last.rows[k].conversation_id = last.conv
          /\ \A k, m \in DOMAIN last.rows : k < m => last.rows[k].id < last.rows[m].id

\* C10: when c holds more than limit messages, get_history returns exactly
\* limit messages, the limit most recently saved ones of c, the most recent
\* first and the oldest of them last.
C10_LimitKeepsNewest ==
    Returned("get_history", "rows") /\ Cardinality(MessagesOf(last.conv)) > last.limit
       => LET all == MessagesOf(last.conv)
              newest == {i \in all : Cardinality({j \in all : j > i}) < last.limit}
          IN  /\ Len(last.rows) = last.limit
              /\ RowIds(last.rows) = newest
              /\ \A i \in all : i <= last.rows[1].id
              /\ \A i \in newest : last.rows[Len(last.rows)].id <= i

C10_Witness ==
    /\ Returned("get_history", "rows")
    /\ last.limit = 2 /\ Len(last.rows) = 2
    /\ Cardinality(MessagesOf(last.conv)) = 3

\* C11 (as stated): get_history without a conversation id returns messages of
\* one conversation only, one of the caller's with the greatest updated_at.
C11_LatestConversationOnly ==
    Returned("get_history", "latest")
       => \A k \in DOMAIN last.rows :
             LET c == last.rows[k].conversation_id IN
             /\ BelongsTo(c, last.user)
             /\ c = last.rows[1].conversation_id
             /\ \A d \in DOMAIN conversations :
                   BelongsTo(d, last.user)
                      => conversations[d].updated_at <= conversations[c].updated_at

\* a direct call of generate_response_with_context_async has returned, and
\* the model was reached
Generated == last.op = "generate" /\ last.args.outcome \in {"text", "empty"}

\* the header block above block k of a prompt
HeaderAbove(prompt, k) ==
    prompt[CHOOSE j \in 1..k : /\ prompt[j].kind = "header"
                               /\ \A i \in (j + 1)..k : prompt[i].kind # "header"]

\* C12 (as stated): the number in the "[n]:" header over a passage, and in every
\* "[n]: name" line of the source-documents block, is the number the final
\* citation list gives to the display name of that source.
C12_PromptNumbersMatchCitations ==
    Generated /\ Truthy(last.args.docs)
       => /\ \A k \in DOMAIN last.prompt :
                last.prompt[k].kind = "source"
                   => \E m \in DOMAIN last.citations :
                         /\ last.citations[m].n = last.prompt[k].n
                         /\ last.citations[m].name = last.prompt[k].text
          /\ \A i \in 1..Min(Len(last.args.docs), Len(last.args.uris)) :
                \A k \in DOMAIN last.prompt :
                   last.prompt[k] = Block("passage", 0, <<last.args.docs[i]>>)
                      => \E m \in DOMAIN last.citations :
                            /\ last.citations[m].name = format_source_uri(last.args.uris[i])
                            /\ last.citations[m].n = HeaderAbove(last.prompt, k).n

\* the first position of a display name in a list of locators
FirstAt(uris, name) ==
    CHOOSE i \in DOMAIN uris :
       /\ format_source_uri(uris[i]) = name
       /\ \A j \in 1..(i - 1) : format_source_uri(uris[j]) # name

\* C13: the citation list has one entry per distinct display name of the
\* locators, in order of first occurrence and numbered 1, 2, ...; the locator
\* kept for an entry is the first one with that display name.
C13_OneEntryPerDisplayName ==
    Generated
       => /\ \A m \in DOMAIN last.citations : last.citations[m].n = m
          /\ {last.citations[m].name : m \in DOMAIN last.citations}
                = {format_source_uri(last.args.uris[i]) : i \in DOMAIN last.args.uris}
          /\ \A m1, m2 \in DOMAIN last.citations :
                m1 < m2 => FirstAt(last.args.uris, last.citations[m1].name)
                              < FirstAt(last.args.uris, last.citations[m2].name)
          /\ Len(UniqueCitations(last.args.uris)) = Len(last.citations)
          /\ \A m \in DOMAIN last.citations :
                UniqueCitations(last.args.uris)[m].uri
                   = last.args.uris[FirstAt(last.args.uris, last.citations[m].name)]

C13_Witness ==
    /\ Generated
    /\ last.args.uris = <<ProgramMd, ProgramPdf, GuideMd, ProgramMd>>
    /\ last.citations = <<[n |-> 1, name |-> <<"Program", " ", "3">>],
                          [n |-> 2, name |-> <<"Guide">>]>>

OnlySpanish(text) ==
    /\ Indicators(text).es_words \cup Indicators(text).es_chars # {}
    /\ Indicators(text).en_words = {}
OnlyEnglish(text) ==
    /\ Indicators(text).en_words # {}
    /\ Indicators(text).es_words \cup Indicators(text).es_chars = {}

\* C20: a message with Spanish indicators only resolves to "es" and a message
\* with English indicators only to "en", whatever the history.
C20_CurrentMessageDecides ==
    last.op = "generate" /\ last.args.outcome # "no_client"
       => /\ OnlySpanish(last.args.message) => last.lang = "es"
          /\ OnlyEnglish(last.args.message) => last.lang = "en"

C20_Witness ==
    /\ last.op = "generate" /\ last.lang = "es"
    /\ OnlySpanish(last.args.message)
    /\ last.args.history # <<>>
    /\ \A i \in DOMAIN last.args.history : OnlyEnglish(last.args.history[i].user_message)

\* the results of a retrieval that carry a text
WithText(results) == {i \in DOMAIN results : results[i].text # ""}

\* C14 (as stated): in POST /chat every retrieved passage is in the prompt, and
\* a passage that has a locator stands under the "[n]:" header whose number is
\* the citation number of the document it was retrieved from.
C14_PassagesUnderTheirSource ==
    \A p \in Tasks :
       task[p].pc = "save_check" /\ task[p].prompt # <<>>
          => \A i \in WithText(task[p].retrieved) :
                \E k \in DOMAIN task[p].prompt :
                   /\ task[p].prompt[k] = Block("passage", 0, <<task[p].retrieved[i].text>>)
                   /\ task[p].retrieved[i].uri # NoUri /\ task[p].citations # <<>>
                         => \E m \in DOMAIN task[p].citations :
                               /\ task[p].citations[m].name
                                     = format_source_uri(task[p].retrieved[i].uri)
                               /\ task[p].citations[m].n = HeaderAbove(task[p].prompt, k).n

\* a POST /chat request ends in this step, with this status
ChatEnds(p, status) ==
    task[p].chat /\ task'[p].pc = "idle" /\ last'.status = status

\* C15: a successful POST /chat without conversation_id adds one conversation,
\* owned by the caller, and nothing else to the conversations; when it returns,
\* that conversation holds one message, with the request's text and the
\* returned response and citations, and the returned id is its id; a history
\* read returns every message of the conversation as it is stored.
C15_ChatCreatesAndPersists ==
    [][ /\ DOMAIN conversations' # DOMAIN conversations
              => \E p \in Tasks :
                    /\ task[p].pc = "create_commit" /\ task'[p].pc = "gh_check"
                    /\ ~task[p].created /\ task'[p].created
                    /\ DOMAIN conversations' = DOMAIN conversations \cup {task'[p].conv}
                    /\ task'[p].conv \notin DOMAIN conversations
                    /\ conversations'[task'[p].conv].user_id = task[p].user
        /\ \A p \in Tasks :
              ChatEnds(p, "ok") /\ task[p].created
                 => /\ last'.conv = task[p].conv
                    /\ last'.conv \in DOMAIN conversations'
                    /\ conversations'[last'.conv].user_id = task[p].user
                    /\ \E i \in NewMessages :
                          /\ MessagesOfNext(last'.conv) = {i}
                          /\ chat_history'[i].user_message = task[p].text
                          /\ chat_history'[i].bot_response = last'.response
                          /\ chat_history'[i].citations.json = last'.citations
        /\ last'.op = "get_history" /\ last'.step = "rows" /\ last'.status = "ok"
              => /\ Len(last'.rows) = Cardinality(MessagesOf(last'.conv))
                 /\ \A k \in DOMAIN last'.rows :
                       LET i == last'.rows[k].id IN
                       /\ i \in MessagesOf(last'.conv)
                       /\ last'.rows[k].user_message = chat_history[i].user_message
                       /\ last'.rows[k].bot_response = chat_history[i].bot_response
                       /\ last'.rows[k].citations = chat_history[i].citations.json ]_vars

C15_Witness ==
    /\ Returned("get_history", "rows")
    /\ conversations[last.conv].title = [text |-> "Conversation", stamp |-> 1]
    /\ Len(last.rows) = 1
    /\ last.rows[1].user_message = "How many sets?"
    /\ last.rows[1].bot_response = <<"See [1] for details.", "Rest 60 s.">>
    /\ last.rows[1].citations = <<[n |-> 1, name |-> <<"Program", " ", "3">>]>>

\* the replies that report a failed generation, and the language they are in
ErrorReplies ==
    {<<"[Error: Bedrock client not initialized. Check server logs.]">>,
     <<"[Error: Could not generate response from Bedrock]">>,
     <<"[Error: No se pudo generar respuesta desde Bedrock]">>}
ReplyLanguage(reply) ==
    IF reply = <<"[Error: No se pudo generar respuesta desde Bedrock]">> THEN "es" ELSE "en"

\* C16 (as stated): when generation fails in POST /chat, the request goes on to
\* save an error reply written in the language of the current message, with
\* no citations.
C16_ErrorReplyInLanguage ==
    \A p \in Tasks :
       task[p].pc = "save_check" /\ task[p].response \in ErrorReplies
          => /\ task[p].citations = <<>>
             /\ ReplyLanguage(task[p].response) = detect_language(task[p].text)

\* C17: when the retriever fails, the request goes on to the generator; the
\* prompt opens with the general-knowledge preamble, holds no passage and no
\* source, and the user message follows the preamble (directly when there is
\* no history); the citations are empty and the exchange is saved.
C17_RetrieverFailureIsNoDocuments ==
    [][ \A p \in Tasks :
           /\ task[p].pc = "retrieve" /\ task'[p] # task[p] => task'[p].pc = "generate"
           /\ /\ task[p].pc = "generate" /\ task[p].docs = <<"None">>
              /\ task'[p] # task[p] /\ task'[p].prompt # <<>>
              => /\ task'[p].pc = "save_check"
                 /\ task'[p].citations = <<>>
                 /\ task'[p].prompt[1] = Block("general_knowledge", 0, <<task'[p].lang>>)
                 /\ \A k \in DOMAIN task'[p].prompt :
                       task'[p].prompt[k].kind
                          \notin {"based_on", "header", "passage", "sources", "source",
                                  "instruction", "formatting"}
                 /\ \E k \in DOMAIN task'[p].prompt :
                       /\ k > 1
                       /\ task'[p].prompt[k] = Block("message", 0, <<task[p].text>>)
                       /\ task[p].rows = <<>> => k = 2
           /\ ChatEnds(p, "ok")
              => \E i \in NewMessages :
                    /\ chat_history'[i].conversation_id = task[p].conv
                    /\ chat_history'[i].user_message = task[p].text
                    /\ chat_history'[i].bot_response = task[p].response ]_vars

C17_Witness ==
    \E p \in Tasks :
       /\ task[p].pc = "save_check" /\ task[p].docs = <<"None">>
       /\ task[p].rows # <<>>
       /\ task[p].prompt # <<>> /\ task[p].prompt[1].kind = "general_knowledge"
       /\ task[p].response = <<"See [1] for details.", "Rest 60 s.">>

\* C18 (as stated): when a POST /chat request ends in NotFound or in an
\* internal fault, the conversation it created does not exist afterwards and
\* it has added no message.
C18_FailedChatLeavesNothing ==
    [][ \A p \in Tasks :
           ChatEnds(p, "NotFound") \/ ChatEnds(p, "InternalFault")
              => /\ task[p].created => task[p].conv \notin DOMAIN conversations'
                 /\ NewMessages = {} ]_vars

\* a guest-session lookup begins and ends in one step
Looks(op, key) == last.op = "none" /\ last'.op = op /\ last'.code = key

\* C19: a guest-session lookup made after the session's expiry instant
\* answers "not found" and removes the session, and in the stored variant the
\* guest user the session pointed to as well; a lookup made before the expiry
\* instant returns the session and removes nothing.
C19_ExpiredLookupDeletes ==
    [][ /\ \A s \in SessionIds :
              Looks("get_guest_session", s) /\ s \in DOMAIN guest_sessions
                 => /\ clock > guest_sessions[s].expires_at
                       => /\ last'.status = "NotFound"
                          /\ s \notin DOMAIN guest_sessions'
                    /\ clock < guest_sessions[s].expires_at
                       => /\ last'.status = "ok"
                          /\ last'.session = <<guest_sessions[s]>>
                          /\ UNCHANGED auth
        /\ \A c \in SessionCodes :
              Looks("get_guest_session_by_code", c) /\ c \in DOMAIN guest_sessions_db
                 => /\ clock > guest_sessions_db[c].expires_at
                       => /\ last'.status = "NotFound"
                          /\ c \notin DOMAIN guest_sessions_db'
                          /\ guest_sessions_db[c].user_id \notin DOMAIN users'
                    /\ clock < guest_sessions_db[c].expires_at
                       => /\ last'.status = "ok"
                          /\ Len(last'.session) = 1
                          /\ last'.session[1].user_id = guest_sessions_db[c].user_id
                          /\ last'.session[1].expires_at = guest_sessions_db[c].expires_at
                          /\ UNCHANGED auth ]_vars

\* a stored session was looked up after its expiry: it and its guest user are
\* gone, while a younger session and its user remain
C19_Witness ==
    /\ last.op = "get_guest_session_by_code"
    /\ last.step = "expired"
    /\ last.status = "NotFound"
    /\ last.code \notin DOMAIN guest_sessions_db
    /\ Cardinality(DOMAIN guest_sessions_db) = 1
    /\ Cardinality(DOMAIN users) = 1

\* the lower-cased text holds a Spanish-list word or a Spanish-only character
HasSpanish(text) ==
    \/ \E word \in Range(spanish_words) : Contains(word, Lower(text))
    \/ \E char \in Range(spanish_chars) : Contains(char, Lower(text))

\* how many entries of english_words the lower-cased text holds
EnglishWords(text) ==
    Cardinality({i \in DOMAIN english_words : Contains(english_words[i], Lower(text))})

\* C21: detect_language answers "es" or "en" for every text, and "es" exactly
\* when the lower-cased text holds a Spanish-list word as a substring or a
\* Spanish-only character, however many English-list words it holds; the
\* empty text gives "en".
C21_SpanishExactlyWhenIndicated ==
    last.op = "detect_language"
       => /\ last.lang \in {"es", "en"}
          /\ last.lang = "es" <=> HasSpanish(last.args.message)
          /\ last.args.message = "" => last.lang = "en"

\* a text with one Spanish-list word and two English-list words was detected
\* as Spanish
C21_Witness ==
    /\ last.op = "detect_language"
    /\ last.args.message = "without CON"
    /\ EnglishWords(last.args.message) = 2
    /\ HasSpanish(last.args.message)
    /\ last.lang = "es"

\* the messages stored for conversation c
StoredFor(c) == {m \in DOMAIN chat_history : chat_history[m].conversation_id = c}

\* C22: get_conversations(user) returns exactly the conversations the user
\* owns, each once, ordered by updated_at descending, and every entry's
\* message_count is the number of messages stored for that conversation.
C22_OwnConversationsNewestFirst ==
    [][ \A u \in Users :
           last.op = "none" /\ last'.op = "get_conversations" /\ last'.user = u
              => LET convs == last'.convs
                     owned == {c \in DOMAIN conversations : conversations[c].user_id = u}
                 IN /\ {convs[k].id : k \in DOMAIN convs} = owned
                    /\ Len(convs) = Cardinality(owned)
                    /\ \A i, j \in DOMAIN convs :
                          i < j => convs[i].updated_at >= convs[j].updated_at
                    /\ \A k \in DOMAIN convs :
                          /\ convs[k].message_count = Cardinality(StoredFor(convs[k].id))
                          /\ convs[k].user_id = u ]_vars

\* a user's list of two conversations: the one with a message, updated
\* later, comes before the empty one, while another user's conversation with
\* a message of its own is left out
C22_Witness ==
    /\ last.op = "get_conversations"
    /\ Len(last.convs) = 2
    /\ last.convs[1].message_count = 1
    /\ last.convs[2].message_count = 0
    /\ last.convs[1].updated_at > last.convs[2].updated_at
    /\ last.convs[1].id < last.convs[2].id
    /\ \E c \in DOMAIN conversations :
          conversations[c].user_id # last.user /\ StoredFor(c) # {}

\* C23 (as stated): format_source_uri applied to its own output gives that
\* output again, for every locator.
C23_FormatIdempotent ==
    last.op = "format_source_uri"
       => format_source_uri(Split(last.response)) = last.response

\* the bearer token is one the current-user check has to turn down: no JWT,
\* a bad signature, past its "exp", or good but for a registered user without
\* a users row
TurnedDown(bearer) ==
    \/ bearer.form \in {"malformed", "bad_signature"}
    \/ bearer.form = "signed" /\ bearer.payload.exp < clock
    \/ /\ bearer.form = "signed"
       /\ bearer.payload.exp > clock
       /\ ~bearer.payload.is_guest
       /\ bearer.payload.sub \notin DOMAIN users

\* C24: the current-user check fails alike for an expired token, a malformed
\* one, one with a bad signature and a valid one whose registered user is
\* gone: status 401 and the one generic message.
C24_FailuresLookAlike ==
    last.op = "get_current_user" /\ TurnedDown(last.bearer)
       => /\ last.status = "Unauthorized"
          /\ last.detail = "Invalid authentication credentials"

\* a token the server signed for a user who registered was presented after
\* its "exp" and turned down
C24_Witness ==
    /\ last.op = "get_current_user"
    /\ last.bearer.form = "signed"
    /\ last.bearer.payload.sub \in DOMAIN users
    /\ ~last.bearer.payload.is_guest
    /\ last.bearer.payload.exp < clock
    /\ last.status = "Unauthorized"

\* the pair is the username and password of a registered user
IsCredentials(username, password) ==
    \E id \in DOMAIN users :
       /\ ~users[id].is_guest
       /\ users[id].username = username
       /\ users[id].password_hash = hash_password(password)

\* C25 (as stated): POST /auth/login answers 401 for every username and
\* password that are not the credentials of a registered user, the username
\* of a guest user included: never a token, never an internal error.
C25_BadLoginIsUnauthorized ==
    last.op = "login" /\ ~IsCredentials(last.username, last.password)
       => last.status = "Unauthorized"

\* C30 (as stated): every conversation row's user_id names a row of users,
\* whatever has been registered, created, joined, deleted, expired and swept.
C30_ConversationOwnerExists ==
    \A c \in DOMAIN conversations : conversations[c].user_id \in DOMAIN users

\* the response in `last` answers a read of one conversation's history
AnswersRead ==
    \/ last.op = "get_conversation_history"
    \/ last.op = "get_history" /\ last.step \in {"check", "rows"}

\* C26 (as stated): a read of the history of an id that names no existing
\* conversation of the caller ends in NotFound and returns no message, for
\* id 0 and for the ids of deleted conversations too.
C26_UnknownIdIsNotFound ==
    AnswersRead /\ ~BelongsTo(last.conv, last.user)
       => last.status = "NotFound" /\ last.rows = <<>>

\* the ids of S from the lowest to the highest, and its n highest
RECURSIVE Ascending(_)
Ascending(S) == IF S = {} THEN <<>> ELSE Ascending(S \ {Max(S)}) \o <<Max(S)>>
Newest(S, n) == {i \in S : Cardinality({j \in S : j > i}) < n}

\* the turns of a prompt's transcript, in the order the prompt lists them
IsTurn(block) == block.kind = "turn"
Transcript(prompt) ==
    [i \in DOMAIN SelectSeq(prompt, IsTurn) |-> SelectSeq(prompt, IsTurn)[i].text]

\* the saved turns with the ids in `ids`, as a transcript writes them
TurnsSaved(ids) ==
    [i \in DOMAIN ids |->
        <<chat_history[ids[i]].user_message>> \o chat_history[ids[i]].bot_response]

\* C27 (as stated): in the chat flow the prompt's transcript lists the most
\* recent (at most 10) turns of the conversation in the order they were
\* saved, and the turns the resolver takes as the last 3 are the 3 most
\* recently saved.
C27_HistoryOldestFirst ==
    [][ \A p \in Tasks :
           task[p].chat /\ task[p].pc = "generate" /\ task'[p].pc # "generate"
              => /\ Transcript(task'[p].prompt)
                       = TurnsSaved(Ascending(Newest(MessagesOf(task[p].conv),
                                                     ChatHistoryLimit)))
                 /\ {LastThree(task[p].rows)[i].id : i \in DOMAIN LastThree(task[p].rows)}
                       = Newest(MessagesOf(task[p].conv), 3) ]_vars

\* the place of a position of chat_endpoint in the order of its awaits:
\* ResolveConversation is 1 to 3, Retrieve 4, Assemble+Generate 5, Persist 6 to 8
Stage(pc) ==
    CASE pc = "create_commit" -> 1
      [] pc = "gh_check" -> 2
      [] pc = "gh_rows" -> 3
      [] pc = "retrieve" -> 4
      [] pc = "generate" -> 5
      [] pc = "save_check" -> 6
      [] pc = "save_stamp" -> 7
      [] pc = "save_commit" -> 8
      [] OTHER -> 0

\* C28: a POST /chat request goes through ResolveConversation, Retrieve,
\* Assemble+Generate, Persist and Respond in that order and through each
\* once: every step takes it to the next position, so the retriever and the
\* generator are called once at most; nothing is stored before the request
\* is past generation; a request that answers with success has, in its last
\* step, committed exactly one message, the one with the generated reply.
C28_StagesInOrderOnce ==
    [][ \A p \in Tasks :
           /\ task[p].pc = "idle" /\ task'[p].chat /\ task'[p].pc # "idle"
                 => task'[p].pc \in {"create_commit", "gh_rows"}
           /\ task[p].chat /\ task'[p] # task[p]
                 => \/ /\ task'[p].chat
                       /\ Stage(task'[p].pc) = Stage(task[p].pc) + 1
                       /\ NewMessages = {}
                       /\ last' = Quiet
                    \/ /\ task'[p].pc = "idle"
                       /\ last' # Quiet
                       /\ IF last'.status = "ok"
                          THEN /\ Stage(task[p].pc) = 8
                               /\ last'.response = task[p].response
                               /\ \E i \in NewMessages :
                                     /\ NewMessages = {i}
                                     /\ chat_history'[i].conversation_id = task[p].conv
                                     /\ chat_history'[i].bot_response = task[p].response
                          ELSE NewMessages = {} ]_vars

\* the second successful chat request in a conversation has answered with
\* the reply of a generator call that raised, and the conversation holds two
\* messages
C28_Witness ==
    /\ last.op = "chat"
    /\ last.status = "ok"
    /\ last.response \in {GenerationError("es"), GenerationError("en")}
    /\ Cardinality(MessagesOf(last.conv)) = 2

\* how many of the turns are in Spanish
SpanishTurns(history) ==
    Cardinality({i \in DOMAIN history : HasSpanish(history[i].user_message)})

====
